---- MODULE Spec2Model ----
(***************************************************************************)
(* Model of the hard_kick_sampler audio engine: the multi-channel ADSR     *)
(* envelope (src/adsr.rs) and the per-voice sample player                  *)
(* (src/sample_wrapper.rs) driven by the plugin's process callback         *)
(* (src/plugin.rs).                                                        *)
(*                                                                         *)
(* Numbers.  The code computes in f32.  The model computes in exact        *)
(* rationals over fixed denominators:                                      *)
(*   - a time (attack, decay, release) is an integer count of 1/TimeDen s; *)
(*   - a sustain level is an integer count of 1/SusDen;                    *)
(*   - an envelope value is an integer count of 1/ValDen, where ValDen is  *)
(*     a common multiple of every denominator the ramps can produce, so    *)
(*     every division below is exact.                                      *)
(* Where the f32 quotient is not exactly representable the code's value is *)
(* the rounding of the model's value; snapped values (0, 1, sustain) and   *)
(* the order of two values are the same in both.                           *)
(***************************************************************************)
EXTENDS Integers, Sequences, FiniteSets, TLC

(***************************************************************************)
(* Bounds of the model.                                                    *)
(***************************************************************************)
\* times range over 0..MaxTime, in units of 1/TimeDen second
MaxTime == 2
TimeDen == 2
\* sustain levels range over -1..MaxSus, in units of 1/SusDen
MaxSus == 3
SusDen == 2
\* sample rates range over 1..MaxRate (samples per second)
MaxRate == 2
\* the ghost counter of consecutive advancing calls saturates at MaxRun
MaxRun == 8

Times == 0..MaxTime
Sustains == (-1)..MaxSus
Rates == 1..MaxRate

RECURSIVE Gcd(_, _)
Gcd(a, b) == IF b = 0 THEN a ELSE Gcd(b, a % b)

RECURSIVE LcmUpTo(_)
LcmUpTo(n) == IF n <= 1 THEN 1
              ELSE LET l == LcmUpTo(n - 1) IN (l * n) \div Gcd(l, n)

\* common denominator of the envelope values
ValDen == LcmUpTo(MaxTime * MaxRate) * SusDen

\* 1.0 as an envelope value
One == ValDen

\* a sustain parameter as an envelope value
Level(sustain) == sustain * (ValDen \div SusDen)

\* x * y on envelope values (exact: see ValDen)
Mul(x, y) == (x * y) \div ValDen

\* time * sample_rate, a count of 1/TimeDen samples
Samples(time, sample_rate) == time * sample_rate

\* stage_progress >= samples
ProgressDone(stage_progress, samples) == stage_progress * TimeDen >= samples

\* stage_progress / samples as an envelope value (samples > 0)
ProgressRatio(stage_progress, samples) ==
    (stage_progress * TimeDen * ValDen) \div samples

(***************************************************************************)
(* MultiChannelAdsr (src/adsr.rs)                                          *)
(***************************************************************************)
AdsrStage == {"Idle", "Attack", "Decay", "Sustain", "Release"}

MultiChannelAdsr_new(sample_rate) ==
    [stage |-> "Idle", current_value |-> 0, stage_progress |-> 0,
     sample_rate |-> sample_rate]

note_on_keepProgress(self) == [self EXCEPT !.stage = "Attack"]

note_on(self) == [self EXCEPT !.stage = "Attack", !.stage_progress = 0]

note_off_fromIdle(self) == [self EXCEPT !.stage = "Release", !.stage_progress = 0]

note_off(self) ==
    IF self.stage # "Idle"
    THEN [self EXCEPT !.stage = "Release", !.stage_progress = 0]
    ELSE self

set_sample_rate(self, sample_rate) == [self EXCEPT !.sample_rate = sample_rate]

is_idling(self) == self.stage = "Idle"

is_playing(self) == self.stage # "Idle"

\* match arm AdsrStage::Idle of next
next_idle(self) == [self EXCEPT !.current_value = 0]

next_attack_alwaysDecay(self, attack, decay) ==
    LET attack_samples == Samples(attack, self.sample_rate) IN
    IF ProgressDone(self.stage_progress, attack_samples)
    THEN [self EXCEPT !.current_value = One,
                      !.stage = "Decay",
                      !.stage_progress = 0]
    ELSE [self EXCEPT !.current_value =
                          ProgressRatio(self.stage_progress, attack_samples),
                      !.stage_progress = self.stage_progress + 1]

next_attack_offByOne(self, attack, decay) ==
    LET attack_samples == Samples(attack, self.sample_rate) IN
    IF ProgressDone(self.stage_progress + 1, attack_samples)
    THEN [self EXCEPT !.current_value = One,
                      !.stage = IF decay > 0 THEN "Decay" ELSE "Sustain",
                      !.stage_progress = 0]
    ELSE [self EXCEPT !.current_value =
                          ProgressRatio(self.stage_progress, attack_samples),
                      !.stage_progress = self.stage_progress + 1]

\* match arm AdsrStage::Attack of next
next_attack(self, attack, decay) ==
    LET attack_samples == Samples(attack, self.sample_rate) IN
    IF ProgressDone(self.stage_progress, attack_samples)
    THEN [self EXCEPT !.current_value = One,
                      !.stage = IF decay > 0 THEN "Decay" ELSE "Sustain",
                      !.stage_progress = 0]
    ELSE [self EXCEPT !.current_value =
                          ProgressRatio(self.stage_progress, attack_samples),
                      !.stage_progress = self.stage_progress + 1]

next_decay_rampUp(self, decay, sustain) ==
    LET decay_samples == Samples(decay, self.sample_rate) IN
    IF ProgressDone(self.stage_progress, decay_samples)
    THEN [self EXCEPT !.current_value = Level(sustain),
                      !.stage = "Sustain",
                      !.stage_progress = 0]
    ELSE LET progress == ProgressRatio(self.stage_progress, decay_samples) IN
         [self EXCEPT !.current_value =
                          Level(sustain) + Mul(progress, One - Level(sustain)),
                      !.stage_progress = self.stage_progress + 1]

\* match arm AdsrStage::Decay of next
next_decay(self, decay, sustain) ==
    LET decay_samples == Samples(decay, self.sample_rate) IN
    IF ProgressDone(self.stage_progress, decay_samples)
    THEN [self EXCEPT !.current_value = Level(sustain),
                      !.stage = "Sustain",
                      !.stage_progress = 0]
    ELSE LET progress == ProgressRatio(self.stage_progress, decay_samples) IN
         [self EXCEPT !.current_value =
                          One - Mul(progress, One - Level(sustain)),
                      !.stage_progress = self.stage_progress + 1]

next_sustain_endsWhenSilent(self, sustain) ==
    IF Level(sustain) <= 0
    THEN [self EXCEPT !.current_value = 0, !.stage = "Idle", !.stage_progress = 0]
    ELSE [self EXCEPT !.current_value = Level(sustain)]

next_sustain_clamped(self, sustain) ==
    [self EXCEPT !.current_value =
        IF Level(sustain) > One THEN One
        ELSE IF Level(sustain) < 0 THEN 0 ELSE Level(sustain)]

\* match arm AdsrStage::Sustain of next
next_sustain(self, sustain) == [self EXCEPT !.current_value = Level(sustain)]

next_release_fromOne(self, sustain, release) ==
    LET release_samples == Samples(release, self.sample_rate) IN
    IF ProgressDone(self.stage_progress, release_samples)
    THEN [self EXCEPT !.current_value = 0,
                      !.stage = "Idle",
                      !.stage_progress = 0]
    ELSE LET progress == ProgressRatio(self.stage_progress, release_samples) IN
         [self EXCEPT !.current_value = One - progress,
                      !.stage_progress = self.stage_progress + 1]

\* match arm AdsrStage::Release of next
next_release(self, sustain, release) ==
    LET release_samples == Samples(release, self.sample_rate) IN
    IF ProgressDone(self.stage_progress, release_samples)
    THEN [self EXCEPT !.current_value = 0,
                      !.stage = "Idle",
                      !.stage_progress = 0]
    ELSE LET progress == ProgressRatio(self.stage_progress, release_samples) IN
         [self EXCEPT !.current_value = Mul(Level(sustain), One - progress),
                      !.stage_progress = self.stage_progress + 1]

\* the envelope after one advancing step; the value returned is the
\* current_value of the result
next(self, attack, decay, sustain, release) ==
    CASE self.stage = "Idle" -> next_idle(self)
      [] self.stage = "Attack" -> next_attack(self, attack, decay)
      [] self.stage = "Decay" -> next_decay(self, decay, sustain)
      [] self.stage = "Sustain" -> next_sustain(self, sustain)
      [] self.stage = "Release" -> next_release(self, sustain, release)

next_value_alwaysAdvance(self, attack, decay, sustain, release, is_first_channel) ==
    LET n == next(self, attack, decay, sustain, release) IN
    [self |-> n, ret |-> n.current_value]

\* [self |-> the envelope after the call, ret |-> the value returned]
next_value(self, attack, decay, sustain, release, is_first_channel) ==
    IF ~is_first_channel
    THEN [self |-> self, ret |-> self.current_value]
    ELSE LET n == next(self, attack, decay, sustain, release) IN
         [self |-> n, ret |-> n.current_value]

(***************************************************************************)
(* Exact fractions <<numerator, denominator>> in lowest terms, denominator *)
(* > 0: the f32 positions, interpolation weights and output samples of the *)
(* sample player.                                                          *)
(***************************************************************************)
Abs(x) == IF x < 0 THEN -x ELSE x

Frac(n, d) ==
    LET g == Gcd(Abs(n), Abs(d))
        sgn == IF d < 0 THEN -1 ELSE 1
    IN <<(sgn * n) \div g, (sgn * d) \div g>>

FInt(n) == <<n, 1>>
FZero == <<0, 1>>
FOne == <<1, 1>>
FAdd(a, b) == Frac(a[1] * b[2] + b[1] * a[2], a[2] * b[2])
FSub(a, b) == Frac(a[1] * b[2] - b[1] * a[2], a[2] * b[2])
FMul(a, b) == Frac(a[1] * b[1], a[2] * b[2])
FDiv(a, b) == Frac(a[1] * b[2], a[2] * b[1])
FNeg(a) == <<-a[1], a[2]>>
FLt(a, b) == a[1] * b[2] < b[1] * a[2]
FLe(a, b) == a[1] * b[2] <= b[1] * a[2]

\* `x as usize`: truncation toward zero, negative values saturate to 0
AsUsize(a) == IF a[1] <= 0 THEN 0 ELSE a[1] \div a[2]

\* f32::fract of a non-negative value
Fract(a) == FSub(a, FInt(AsUsize(a)))

\* an envelope value as a fraction
EnvFrac(v) == Frac(v, ValDen)

\* Option<T>: <<>> is None, <<x>> is Some(x)
None == <<>>
Some(x) == <<x>>
IsSome(o) == o # <<>>
Unwrap(o) == o[1]

(***************************************************************************)
(* utils.rs                                                                *)
(***************************************************************************)
interpolate(v1, v2, fraction) ==
    FAdd(FMul(v1, FSub(FOne, fraction)), FMul(v2, fraction))

clipping_sub(lhs, rhs) == IF lhs >= rhs THEN Some(lhs - rhs) ELSE None

\* <<sample_index, fraction>>
get_stretch_playback_position(process_count, sr_correction, playback_rate, num_channels, channel_index) ==
    LET raw_playback_position == FMul(process_count, sr_correction)
        pitched_position == FMul(playback_rate, raw_playback_position)
        frame_index == AsUsize(pitched_position)
        fraction == Fract(pitched_position)
        sample_index == frame_index * num_channels + channel_index
    IN <<sample_index, fraction>>

BlendGroup == {"None", "Start", "End"}

\* the Start arm ramping upwards, as the End arm does
blend_raw_startRampsUp(group, current_time, blend_time, blend_transition) ==
    LET blend_start == FSub(blend_time, FDiv(blend_transition, FInt(2)))
        blend_end == FAdd(blend_start, blend_transition)
    IN CASE group = "None" -> Some(FOne)
         [] group = "Start" ->
              IF FLt(current_time, blend_start) THEN Some(FOne)
              ELSE IF FLt(blend_end, current_time) THEN Some(FZero)
              ELSE IF blend_transition[1] = 0 THEN None
              ELSE Some(FDiv(FSub(current_time, blend_start), blend_transition))
         [] group = "End" ->
              IF FLt(current_time, blend_start) THEN Some(FZero)
              ELSE IF FLt(blend_end, current_time) THEN Some(FOne)
              ELSE IF blend_transition[1] = 0 THEN None
              ELSE Some(FDiv(FSub(current_time, blend_start), blend_transition))

\* the End arm measuring its ramp from the center of the window
blend_raw_endFromCenter(group, current_time, blend_time, blend_transition) ==
    LET blend_start == FSub(blend_time, FDiv(blend_transition, FInt(2)))
        blend_end == FAdd(blend_start, blend_transition)
    IN CASE group = "None" -> Some(FOne)
         [] group = "Start" ->
              IF FLt(current_time, blend_start) THEN Some(FOne)
              ELSE IF FLt(blend_end, current_time) THEN Some(FZero)
              ELSE IF blend_transition[1] = 0 THEN None
              ELSE Some(FDiv(FSub(blend_end, current_time), blend_transition))
         [] group = "End" ->
              IF FLt(current_time, blend_start) THEN Some(FZero)
              ELSE IF FLt(blend_end, current_time) THEN Some(FOne)
              ELSE IF blend_transition[1] = 0 THEN None
              ELSE Some(FDiv(FSub(current_time, blend_time), blend_transition))

\* the gain before the final finiteness test and clamp; <<>> stands for a
\* non-finite quotient (division by a zero blend_transition)
blend_raw(group, current_time, blend_time, blend_transition) ==
    LET blend_start == FSub(blend_time, FDiv(blend_transition, FInt(2)))
        blend_end == FAdd(blend_start, blend_transition)
    IN CASE group = "None" -> Some(FOne)
         [] group = "Start" ->
              IF FLt(current_time, blend_start) THEN Some(FOne)
              ELSE IF FLt(blend_end, current_time) THEN Some(FZero)
              ELSE IF blend_transition[1] = 0 THEN None
              ELSE Some(FDiv(FSub(blend_end, current_time), blend_transition))
         [] group = "End" ->
              IF FLt(current_time, blend_start) THEN Some(FZero)
              ELSE IF FLt(blend_end, current_time) THEN Some(FOne)
              ELSE IF blend_transition[1] = 0 THEN None
              ELSE Some(FDiv(FSub(current_time, blend_start), blend_transition))

get_blend_value_failSilent(group, current_time, blend_time, blend_transition) ==
    LET value == blend_raw(group, current_time, blend_time, blend_transition) IN
    IF ~IsSome(value) THEN FZero
    ELSE IF FLt(Unwrap(value), FZero) THEN FZero
    ELSE IF FLt(FOne, Unwrap(value)) THEN FOne
    ELSE Unwrap(value)

get_blend_value(group, current_time, blend_time, blend_transition) ==
    LET value == blend_raw(group, current_time, blend_time, blend_transition) IN
    IF ~IsSome(value) THEN FOne
    ELSE IF FLt(Unwrap(value), FZero) THEN FZero
    ELSE IF FLt(FOne, Unwrap(value)) THEN FOne
    ELSE Unwrap(value)

(***************************************************************************)
(* SamplePlayer (src/sample_wrapper.rs).  `self` is the player with its    *)
(* envelope in field adsr; `prm` is the parameter store it reads.          *)
(* Times (start_offset, blend_time, ...) are fractions of a second.        *)
(***************************************************************************)
BASE_NOTE == 60
DEFAULT_SAMPLE_RATE == 48000
SEMITONE_PER_OCTAVE == 12

\* Vec::get with a 0-based index
Get(buffer, index) ==
    IF index < Len(buffer) THEN Some(FInt(buffer[index + 1])) ELSE None

\* 2^k
RECURSIVE Pow2(_)
Pow2(k) == IF k = 0 THEN 1 ELSE 2 * Pow2(k - 1)

\* 2.0.powf(final_offset / 12), for a whole number of octaves
PowOctaves(final_offset) ==
    LET k == final_offset \div SEMITONE_PER_OCTAVE IN
    IF k >= 0 THEN FInt(Pow2(k)) ELSE Frac(1, Pow2(-k))

\* MultiChannelAdsr::reset, called by the player; its body is not part of
\* adsr.rs: the envelope goes back to its constructed state
MultiChannelAdsr_reset(self) ==
    [self EXCEPT !.stage = "Idle", !.stage_progress = 0, !.current_value = 0]

\* utils::load_smooth_param: the smoothed gain, stepped on the first channel
load_smooth_param(gain, is_first_channel) == gain

SamplePlayer_new ==
    [buffer |-> None,
     sample_rate |-> 0,
     host_sample_rate |-> DEFAULT_SAMPLE_RATE,
     midi_note |-> None,
     host_channels |-> 0,
     sample_channels |-> 0,
     adsr |-> MultiChannelAdsr_new(DEFAULT_SAMPLE_RATE),
     sample_path |-> None,
     shared_buffer |-> None,
     shared_playback_position |-> 0]

start_playing_withoutBuffer(self, note) ==
    [self EXCEPT !.midi_note = Some(note - BASE_NOTE),
                 !.adsr = note_on(self.adsr)]

start_playing(self, note) ==
    IF IsSome(self.buffer)
    THEN [self EXCEPT !.midi_note = Some(note - BASE_NOTE),
                      !.adsr = note_on(self.adsr)]
    ELSE self

stop_playing_clearNote(self) ==
    [self EXCEPT !.adsr = note_off(self.adsr), !.midi_note = None]

stop_playing(self) == [self EXCEPT !.adsr = note_off(self.adsr)]

change_sample_rate_output(self, sample_rate) ==
    [self EXCEPT !.host_sample_rate = sample_rate,
                 !.adsr = set_sample_rate(self.adsr, sample_rate)]

change_channel_number(self, num_channel) ==
    [self EXCEPT !.host_channels = num_channel]

set_sample_path(self, file_path) == [self EXCEPT !.sample_path = file_path]

\* audio_data: Option<AudioData>, AudioData = [data, channels, sample_rate]
update_buffers(self, audio_data) ==
    [self EXCEPT
        !.buffer = IF IsSome(audio_data) THEN Some(Unwrap(audio_data).data) ELSE None,
        !.sample_channels = IF IsSome(audio_data) THEN Unwrap(audio_data).channels ELSE 0,
        !.sample_rate = IF IsSome(audio_data) THEN Unwrap(audio_data).sample_rate
                        ELSE self.sample_rate,
        !.shared_buffer = audio_data]

\* a path is identified with the file found there
load_and_set_audio_file(self, file_path, audio_data) ==
    set_sample_path(update_buffers(self, Some(audio_data)), Some(file_path))

clear_sample_keepEnvelope(self) ==
    LET cleared == update_buffers(self, None) IN
    set_sample_path([cleared EXCEPT !.sample_rate = 0], None)

clear_sample(self) ==
    LET cleared == update_buffers(self, None) IN
    set_sample_path([cleared EXCEPT !.sample_rate = 0,
                                    !.adsr = MultiChannelAdsr_reset(cleared.adsr)],
                    None)

\* utils::load_audio_file: the decoded file, None for Err (file unreadable)
load_audio_file(file_path, readable) == IF readable THEN Some(file_path) ELSE None

\* on Err the `?` returns before update_buffers
load_preset_sample(self, readable) ==
    IF IsSome(self.sample_path)
    THEN LET audio_data == load_audio_file(Unwrap(self.sample_path), readable) IN
         IF IsSome(audio_data) THEN update_buffers(self, audio_data) ELSE self
    ELSE self

get_playback_rate(self, prm) ==
    LET param_note_offset == prm.semitone_offset
        midi_note_offset ==
            IF prm.is_tonal
            THEN (IF IsSome(self.midi_note) THEN Unwrap(self.midi_note) ELSE 0)
                 - prm.root_note
            ELSE 0
        final_offset == param_note_offset + midi_note_offset
    IN PowOctaves(final_offset)

get_sr_correction(self) == Frac(self.sample_rate, self.host_sample_rate)

get_playback_position(self, prm, process_count, channel_index) ==
    get_stretch_playback_position(FInt(process_count), get_sr_correction(self),
                                  get_playback_rate(self, prm),
                                  self.sample_channels, channel_index)

cleanup_wrapper(self) ==
    LET cleared == update_buffers(self, None) IN
    [cleared EXCEPT !.midi_note = None,
                    !.adsr = MultiChannelAdsr_reset(cleared.adsr)]

reset(self) ==
    [self EXCEPT !.adsr = MultiChannelAdsr_reset(self.adsr), !.midi_note = None]

is_muted(prm) == prm.muted

is_silent_ignoringMute(self, prm) ==
    is_idling(self.adsr) \/ ~IsSome(self.buffer)

is_silent(self, prm) ==
    is_idling(self.adsr) \/ is_muted(prm) \/ ~IsSome(self.buffer)

get_buffer_if_not_silent(self, prm) ==
    IF is_silent(self, prm) THEN None ELSE self.buffer

\* -start_offset * sample_rate * sample_channels
StartOffsetSamples(self, prm) ==
    FMul(FMul(FNeg(prm.start_offset), FInt(self.sample_rate)),
         FInt(self.sample_channels))

\* index of the sample read for a channel: None before the start of the data
FinalSampleIndex(self, prm, process_count, channel_index) ==
    LET sample_index == get_playback_position(self, prm, process_count, channel_index)[1]
        offset == StartOffsetSamples(self, prm)
    IN IF FLt(FZero, offset)
       THEN clipping_sub(sample_index, AsUsize(offset))
       ELSE Some(AsUsize(FSub(FInt(sample_index), offset)))

\* the arm of next taken when the read position is out of bounds
next_out_of_bounds_keepNote(self) ==
    [self EXCEPT !.adsr = MultiChannelAdsr_reset(self.adsr)]

next_out_of_bounds(self) ==
    [self EXCEPT !.midi_note = None, !.adsr = MultiChannelAdsr_reset(self.adsr)]

\* [self |-> the player after the call, ret |-> the sample returned,
\*  arm |-> the return taken, env |-> Some(envelope value multiplied in)]
SamplePlayer_next(self, prm, process_count, channel_index) ==
    IF ~IsSome(get_buffer_if_not_silent(self, prm))
    THEN [self |-> self, ret |-> FZero, arm |-> "silent", env |-> None]
    ELSE
    LET buffer == Unwrap(self.buffer)
        is_first_channel == channel_index = 0
        fraction == get_playback_position(self, prm, process_count, channel_index)[2]
        final_sample_index == FinalSampleIndex(self, prm, process_count, channel_index)
    IN
    IF ~IsSome(final_sample_index)
    THEN [self |-> self, ret |-> FZero, arm |-> "before_start", env |-> None]
    ELSE
    LET current_frame == Get(buffer, Unwrap(final_sample_index))
        next_frame == Get(buffer, Unwrap(final_sample_index) + self.host_channels)
    IN
    IF ~IsSome(current_frame)
    THEN [self |-> next_out_of_bounds(self), ret |-> FZero,
          arm |-> "out_of_bounds", env |-> None]
    ELSE
    LET sample_value ==
            IF IsSome(next_frame)
            THEN interpolate(Unwrap(current_frame), Unwrap(next_frame), fraction)
            ELSE Unwrap(current_frame)
        gain == load_smooth_param(prm.gain, is_first_channel)
        current_time == Frac(process_count, self.host_sample_rate)
        blend_gain == get_blend_value(prm.blend_group, current_time,
                                      prm.blend_time, prm.blend_transition)
        nv == next_value(self.adsr, prm.attack, prm.decay, prm.sustain,
                         prm.release, is_first_channel)
    IN [self |-> [self EXCEPT !.adsr = nv.self],
        ret |-> FMul(FMul(FMul(sample_value, FInt(gain)), EnvFrac(nv.ret)), blend_gain),
        arm |-> "played",
        env |-> Some(nv.ret)]

update_shared_position(self, prm, process_count) ==
    IF is_silent(self, prm)
    THEN [self EXCEPT !.shared_playback_position = 0]
    ELSE LET raw_playback_position == FMul(FInt(process_count), get_sr_correction(self))
             pitched_position == FMul(get_playback_rate(self, prm), raw_playback_position)
         IN [self EXCEPT !.shared_playback_position = AsUsize(pitched_position)]

(***************************************************************************)
(* State.                                                                  *)
(***************************************************************************)
VARIABLES
    adsr,       \* the MultiChannelAdsr
    params,     \* the parameter store: attack, decay, sustain, release
    ret,        \* value returned by the last next_value call
    first_ret,  \* <<v>>: value returned by the last is_first_channel call; <<>> if none
    last_op,    \* the last operation applied to the envelope
    pre_stage,  \* the stage the envelope was in when last_op was called
    run_start,  \* what began the current run of advancing calls: "on", "off", "other"
    run,        \* advancing calls since run_start, parameters unchanged (saturates)
    player,     \* the SamplePlayer of the plugin, its envelope in player.adsr
    prm,        \* the parameters the player and the plugin read
    process_count, \* HardKickSampler.process_count
    receiver,   \* task results sent to the audio thread and not yet received
    pc,         \* where the audio thread is: [at, F, i, c]
    out,        \* the host buffer of the block being processed, frame by frame
    obs,        \* history of the next calls of the current frame and block
    pool,       \* a plugin with two sample slots mixing into one buffer
    shifter,    \* a pitch-shift strategy and the history of its calls
    gui,        \* the audio thread and the editor thread around the shared locks
    blend       \* one call of get_blend_value: its arguments and its result

avars == <<adsr, params, ret, first_ret, last_op, pre_stage, run_start, run>>
vvars == <<player, prm, process_count, receiver, pc, out, obs>>
xvars == <<pool, shifter, gui, blend>>
vars == <<avars, vvars, xvars>>

ParamSet == [attack : Times, decay : Times, sustain : Sustains, release : Times]

\* the plugin as constructed (HardKickSampler::default), one sample slot
PluginNew ==
    /\ player = SamplePlayer_new
    /\ process_count = 0
    /\ receiver = <<>>
    /\ pc = [at |-> "new", F |-> 0, i |-> 0, c |-> 0]
    /\ out = <<>>
    /\ obs = [arm |-> "none", ret |-> FZero, arms |-> <<>>, envs |-> <<>>,
              adv |-> 0, fr_done |-> FALSE, blk_adv |-> 0, blk_live |-> 0,
              stopped |-> FALSE, ev |-> [kind |-> "none"]]
    /\ pool = <<>>
    /\ shifter = <<>>
    /\ blend = <<>>
    /\ gui = <<>>

Init ==
    /\ adsr \in {MultiChannelAdsr_new(sr) : sr \in Rates}
    /\ params \in ParamSet
    /\ ret = 0
    /\ first_ret = <<>>
    /\ last_op = "new"
    /\ pre_stage = "Idle"
    /\ run_start = "other"
    /\ run = 0
    /\ PluginNew
    /\ prm = [muted |-> FALSE]

NoteOn ==
    /\ adsr' = note_on(adsr)
    /\ last_op' = "note_on"
    /\ pre_stage' = adsr.stage
    /\ run_start' = "on"
    /\ run' = 0
    /\ UNCHANGED <<params, ret, first_ret>>
    /\ UNCHANGED <<vvars, xvars>>

NoteOff ==
    /\ adsr' = note_off(adsr)
    /\ last_op' = "note_off"
    /\ pre_stage' = adsr.stage
    /\ run_start' = IF adsr.stage = "Idle" THEN "other" ELSE "off"
    /\ run' = 0
    /\ UNCHANGED <<params, ret, first_ret>>
    /\ UNCHANGED <<vvars, xvars>>

\* the host changes one parameter between two calls
SetParam ==
    /\ \E p \in ParamSet :
          /\ p # params
          /\ Cardinality({f \in DOMAIN p : p[f] # params[f]}) = 1
          /\ params' = p
    /\ last_op' = "set_param"
    /\ pre_stage' = adsr.stage
    /\ run_start' = "other"
    /\ run' = 0
    /\ UNCHANGED <<adsr, ret, first_ret>>
    /\ UNCHANGED <<vvars, xvars>>

SetSampleRate ==
    /\ \E sr \in Rates :
          /\ sr # adsr.sample_rate
          /\ adsr' = set_sample_rate(adsr, sr)
    /\ last_op' = "set_sample_rate"
    /\ pre_stage' = adsr.stage
    /\ run_start' = "other"
    /\ run' = 0
    /\ UNCHANGED <<params, ret, first_ret>>
    /\ UNCHANGED <<vvars, xvars>>

NextValueFirst ==
    LET nv == next_value(adsr, params.attack, params.decay, params.sustain,
                         params.release, TRUE) IN
    /\ adsr' = nv.self
    /\ ret' = nv.ret
    /\ first_ret' = <<nv.ret>>
    /\ last_op' = "next_first"
    /\ pre_stage' = adsr.stage
    /\ run' = IF run < MaxRun THEN run + 1 ELSE run
    /\ UNCHANGED <<params, run_start>>
    /\ UNCHANGED <<vvars, xvars>>

NextValueOther ==
    LET nv == next_value(adsr, params.attack, params.decay, params.sustain,
                         params.release, FALSE) IN
    /\ adsr' = nv.self
    /\ ret' = nv.ret
    /\ last_op' = "next_other"
    /\ pre_stage' = adsr.stage
    /\ UNCHANGED <<params, first_ret, run_start, run>>
    /\ UNCHANGED <<vvars, xvars>>

Next ==
    \/ NoteOn
    \/ NoteOff
    \/ SetParam
    \/ SetSampleRate
    \/ NextValueFirst
    \/ NextValueOther

Spec == Init /\ [][Next]_vars

(***************************************************************************)
(* The envelope held after note_on(): only next_value calls follow, with   *)
(* the parameters and the sample rate unchanged.  The caller keeps         *)
(* processing frames, so the advancing call is weakly fair.                *)
(***************************************************************************)
InitHold ==
    /\ adsr \in {note_on(MultiChannelAdsr_new(sr)) : sr \in Rates}
    /\ params \in ParamSet
    /\ ret = 0
    /\ first_ret = <<>>
    /\ last_op = "note_on"
    /\ pre_stage = "Idle"
    /\ run_start = "on"
    /\ run = 0
    /\ PluginNew
    /\ prm = [muted |-> FALSE]

NextHold ==
    \/ NextValueFirst
    \/ NextValueOther

SpecHold == InitHold /\ [][NextHold]_vars /\ WF_vars(NextValueFirst)

(***************************************************************************)
(* The plugin with one sample slot (src/plugin.rs).  The audio thread runs *)
(* initialize, reset and process; process is cut into one step per output  *)
(* slot so that what the other threads do in between is visible.           *)
(***************************************************************************)
MaxFrames == 3
MaxBlock == 2
MaxInbox == 1

\* a decoded audio file: interleaved samples 1, 2, 3, ...
AudioFile(channels, sample_rate) ==
    [data |-> [k \in 1..(MaxFrames * channels) |-> k],
     channels |-> channels,
     sample_rate |-> sample_rate]

Files == {AudioFile(1, 2), AudioFile(2, 1)}

\* the files the editor asks the task thread to load
TaskFiles == {AudioFile(2, 1)}

HostRates == {1, 2}

\* AUDIO_IO_LAYOUTS: one stereo layout
HostChannels == {2}

VoicePrmSet ==
    [attack : {0, 1}, decay : {1}, sustain : {1}, release : {1},
     gain : {1}, plugin_gain : {1},
     semitone_offset : {0}, root_note : {0}, is_tonal : {TRUE}, muted : BOOLEAN,
     start_offset : {Frac(k, TimeDen) : k \in (-1)..1},
     blend_group : {"None"}, blend_time : {FZero}, blend_transition : {FZero}]

NoteEvents == {[type |-> "NoteOn", note |-> BASE_NOTE],
               [type |-> "NoteOn", note |-> BASE_NOTE + SEMITONE_PER_OCTAVE],
               [type |-> "NoteOff", note |-> BASE_NOTE]}

\* the events of one block
EventSeqs == {<<>>} \cup {<<e>> : e \in NoteEvents}

\* obs.ev: whether the last step was the beginning or the end of process
NoEvent == [kind |-> "none"]

ObsNew ==
    [arm |-> "none", ret |-> FZero, arms |-> <<>>, envs |-> <<>>,
     adv |-> 0, fr_done |-> FALSE, blk_adv |-> 0, blk_live |-> 0,
     stopped |-> FALSE, ev |-> NoEvent]

InitVoice ==
    /\ adsr = MultiChannelAdsr_new(1)
    /\ params = [attack |-> 0, decay |-> 0, sustain |-> 0, release |-> 0]
    /\ ret = 0
    /\ first_ret = <<>>
    /\ last_op = "new"
    /\ pre_stage = "Idle"
    /\ run_start = "other"
    /\ run = 0
    /\ player \in {set_sample_path(SamplePlayer_new, path) :
                      path \in {None} \cup {Some(f) : f \in Files}}
    /\ prm \in VoicePrmSet
    /\ process_count = 0
    /\ receiver = <<>>
    /\ pc = [at |-> "new", F |-> 0, i |-> 0, c |-> 0]
    /\ out = <<>>
    /\ obs = ObsNew
    /\ pool = <<>>
    /\ shifter = <<>>
    /\ blend = <<>>
    /\ gui = <<>>

start_sample(self, count, note) ==
    [player |-> start_playing(self, note), process_count |-> 0]

stop_sample(self, count) ==
    [player |-> stop_playing(self), process_count |-> count]

RECURSIVE handle_context(_, _, _)
handle_context(self, count, events) ==
    IF events = <<>> THEN [player |-> self, process_count |-> count]
    ELSE LET event == Head(events)
             st == IF event.type = "NoteOn" THEN start_sample(self, count, event.note)
                   ELSE stop_sample(self, count)
         IN handle_context(st.player, st.process_count, Tail(events))

RECURSIVE handle_messages(_, _)
handle_messages(self, tasks) ==
    IF tasks = <<>> THEN self
    ELSE LET task == Head(tasks)
             applied == IF task.type = "LoadedFile"
                        THEN load_and_set_audio_file(self, task.path, task.data)
                        ELSE clear_sample(self)
         IN handle_messages(applied, Tail(tasks))

\* process_classic, one slot: *sample += r, for r the result of self.next
add_to_slot(r, buffer, slot) ==
    [self |-> r.self, buffer |-> [buffer EXCEPT ![slot] = FAdd(@, r.ret)], r |-> r]

write_to_slot(r, buffer, slot) ==
    [self |-> r.self, buffer |-> [buffer EXCEPT ![slot] = r.ret], r |-> r]

\* process_classic, one slot: *sample += self.next(count, channel_index)
process_slot_overwrite(self, sprm, buffer, count, channel_index, slot) ==
    write_to_slot(SamplePlayer_next(self, sprm, count, channel_index), buffer, slot)

process_slot(self, sprm, buffer, count, channel_index, slot) ==
    add_to_slot(SamplePlayer_next(self, sprm, count, channel_index), buffer, slot)

\* process_classic: the slots of the block, frame by frame, channel by channel
RECURSIVE process_classic_from(_, _, _, _, _)
process_classic_rest(ps, sprm, count, k) ==
    process_classic_from(ps.self, sprm, ps.buffer, count, k)

process_classic_from(self, sprm, buffer, count, k) ==
    IF k >= Len(buffer) THEN [self |-> self, buffer |-> buffer]
    ELSE process_classic_rest(
             process_slot(self, sprm, buffer, k \div self.host_channels + count,
                          k % self.host_channels, k + 1),
             sprm, count, k + 1)

process_classic(self, sprm, buffer, count) ==
    process_classic_from(self, sprm, buffer, count, 0)

\* process: handle_messages, then handle_context
process_begin_eventsFirst(self, count, tasks, events) ==
    LET hc == handle_context(self, count, events) IN
    [player |-> handle_messages(hc.player, tasks), process_count |-> hc.process_count]

process_begin(self, count, tasks, events) ==
    handle_context(handle_messages(self, tasks), count, events)

Initialize ==
    /\ pc.at \in {"new", "idle"}
    /\ \E sample_rate \in HostRates, num_channel \in HostChannels, readable \in BOOLEAN :
          player' = load_preset_sample(
                        change_channel_number(
                            change_sample_rate_output(cleanup_wrapper(player), sample_rate),
                            num_channel),
                        readable)
    /\ pc' = [pc EXCEPT !.at = "idle"]
    /\ obs' = [ObsNew EXCEPT !.stopped = obs.stopped]
    /\ UNCHANGED <<prm, process_count, receiver, out>>
    /\ UNCHANGED <<avars, xvars>>

Reset ==
    /\ pc.at = "idle"
    /\ player' = reset(player)
    /\ obs' = [ObsNew EXCEPT !.stopped = obs.stopped]
    /\ UNCHANGED <<prm, process_count, receiver, pc, out>>
    /\ UNCHANGED <<avars, xvars>>

\* the background task thread sends a loaded file
TaskLoadedFile ==
    /\ pc.at # "new"
    /\ Len(receiver) < MaxInbox
    /\ \E f \in TaskFiles :
          receiver' = Append(receiver, [type |-> "LoadedFile", path |-> f, data |-> f])
    /\ obs' = [obs EXCEPT !.ev = NoEvent]
    /\ UNCHANGED <<player, prm, process_count, pc, out>>
    /\ UNCHANGED <<avars, xvars>>

\* the background task thread forwards a clear request of the editor
TaskClearSample ==
    /\ pc.at # "new"
    /\ Len(receiver) < MaxInbox
    /\ receiver' = Append(receiver, [type |-> "ClearSample"])
    /\ obs' = [obs EXCEPT !.ev = NoEvent]
    /\ UNCHANGED <<player, prm, process_count, pc, out>>
    /\ UNCHANGED <<avars, xvars>>

\* the host toggles the mute parameter between two blocks
SetMuted ==
    /\ pc.at = "idle"
    /\ prm' = [prm EXCEPT !.muted = ~prm.muted]
    /\ obs' = [ObsNew EXCEPT !.stopped = obs.stopped]
    /\ UNCHANGED <<player, process_count, receiver, pc, out>>
    /\ UNCHANGED <<avars, xvars>>

\* process, up to the test for an active player: handle_messages,
\* handle_context, clearing the buffer; with no active player it returns
ProcessBegin ==
    /\ pc.at = "idle"
    /\ \E F \in 1..MaxBlock, events \in EventSeqs :
          LET hc == process_begin(player, process_count, receiver, events)
              active == ~is_silent(hc.player, prm)
              started == \E k \in 1..Len(events) : events[k].type = "NoteOn"
          IN /\ player' = hc.player
             /\ process_count' = hc.process_count
             /\ out' = [k \in 1..(F * player.host_channels) |-> FZero]
             /\ pc' = [at |-> IF active THEN "frames" ELSE "idle",
                       F |-> F, i |-> 0, c |-> 0]
             /\ obs' = [ObsNew EXCEPT
                           !.stopped = obs.stopped /\ ~started,
                           !.ev = [kind |-> "begin"]]
    /\ receiver' = <<>>
    /\ UNCHANGED prm
    /\ UNCHANGED <<avars, xvars>>

\* process_classic, one slot: *sample += self.next(count, channel_index)
ProcessSample ==
    /\ pc.at = "frames"
    /\ LET count == pc.i + process_count
           slot == pc.i * player.host_channels + pc.c + 1
           ps == process_slot(player, prm, out, count, pc.c, slot)
           r == ps.r
           last_channel == pc.c = player.host_channels - 1
           last_frame == pc.i = pc.F - 1
           arms == IF pc.c = 0 THEN <<r.arm>> ELSE Append(obs.arms, r.arm)
           adv == (IF pc.c = 0 THEN 0 ELSE obs.adv)
                  + (IF pc.c = 0 /\ r.arm = "played" THEN 1 ELSE 0)
           live == \A k \in 1..Len(arms) : arms[k] \in {"played", "before_start"}
       IN /\ player' = ps.self
          /\ out' = ps.buffer
          /\ pc' = IF ~last_channel THEN [pc EXCEPT !.c = pc.c + 1]
                   ELSE IF ~last_frame THEN [pc EXCEPT !.i = pc.i + 1, !.c = 0]
                   ELSE [pc EXCEPT !.at = "end"]
          /\ obs' = [arm |-> r.arm,
                     ret |-> r.ret,
                     arms |-> arms,
                     envs |-> IF pc.c = 0 THEN <<r.env>> ELSE Append(obs.envs, r.env),
                     adv |-> adv,
                     fr_done |-> last_channel,
                     blk_adv |-> obs.blk_adv + (IF pc.c = 0 /\ r.arm = "played" THEN 1 ELSE 0),
                     blk_live |-> obs.blk_live + (IF last_channel /\ live THEN 1 ELSE 0),
                     stopped |-> obs.stopped \/ r.arm = "out_of_bounds",
                     ev |-> NoEvent]
    /\ UNCHANGED <<prm, process_count, receiver>>
    /\ UNCHANGED <<avars, xvars>>

\* process, after the players have filled the buffer
ProcessEnd ==
    /\ pc.at = "end"
    /\ process_count' = process_count + pc.F
    /\ out' = [k \in DOMAIN out |-> FMul(out[k], FInt(prm.plugin_gain))]
    /\ player' = update_shared_position(player, prm, process_count')
    /\ pc' = [pc EXCEPT !.at = "idle"]
    /\ obs' = [ObsNew EXCEPT !.stopped = obs.stopped, !.ev = [kind |-> "end"]]
    /\ UNCHANGED <<prm, receiver>>
    /\ UNCHANGED <<avars, xvars>>

NextVoice ==
    \/ Initialize
    \/ Reset
    \/ TaskLoadedFile
    \/ TaskClearSample
    \/ SetMuted
    \/ ProcessBegin
    \/ ProcessSample
    \/ ProcessEnd

SpecVoice == InitVoice /\ [][NextVoice]_vars

(***************************************************************************)
(* The plugin while the host keeps calling process: a block that can begin *)
(* begins, and a block that has begun is processed to its end.             *)
(***************************************************************************)
NextRun ==
    \/ Initialize
    \/ TaskClearSample
    \/ ProcessBegin
    \/ ProcessSample
    \/ ProcessEnd

\* WF_vars(ProcessSample) with its ENABLED written out: a slot can be
\* processed exactly when the audio thread is inside the frame loop
FairProcessSample ==
    []<>(pc.at # "frames") \/ []<><<ProcessSample>>_vars

SpecRun ==
    /\ InitVoice
    /\ [][NextRun]_vars
    /\ WF_vars(ProcessBegin)
    /\ FairProcessSample
    /\ WF_vars(ProcessEnd)

(***************************************************************************)
(* The plugin with two sample slots: HardKickSampler::process as one step. *)
(***************************************************************************)

\* two of the MAX_SAMPLES slots of sample_players
MixSlots == {1, 2}

MixPrmSet == {p \in VoicePrmSet : p.start_offset = FZero /\ ~p.muted}

\* handle_messages: each result goes to the player of its index
RECURSIVE pool_handle_messages(_, _)
pool_handle_messages(players, tasks) ==
    IF tasks = <<>> THEN players
    ELSE LET task == Head(tasks) IN
         pool_handle_messages(
             [players EXCEPT ![task.index] = handle_messages(@, <<task>>)],
             Tail(tasks))

\* handle_context: start_sample and stop_sample address every player
pool_handle_context(players, count, events) ==
    [players |-> [v \in DOMAIN players |->
                     handle_context(players[v], count, events).player],
     process_count |-> handle_context(players[1], count, events).process_count]

\* the players that are not silent, in the order of sample_players
active_players(players, prms) ==
    SelectSeq([v \in DOMAIN players |-> v],
              LAMBDA v : ~is_silent(players[v], prms[v]))

\* every active player fills the buffer, one by one
RECURSIVE pool_fill(_, _, _, _, _)
pool_fill_rest(filled, v, players, prms, count, order) ==
    pool_fill([players EXCEPT ![v] = filled.self], prms, filled.buffer, count, order)

pool_fill(players, prms, buffer, count, order) ==
    IF order = <<>> THEN [players |-> players, buffer |-> buffer]
    ELSE pool_fill_rest(
             process_classic(players[Head(order)], prms[Head(order)], buffer, count),
             Head(order), players, prms, count, Tail(order))

Reverse(seq) == [k \in 1..Len(seq) |-> seq[Len(seq) + 1 - k]]

InitMix ==
    /\ adsr = MultiChannelAdsr_new(1)
    /\ params = [attack |-> 0, decay |-> 0, sustain |-> 0, release |-> 0]
    /\ ret = 0
    /\ first_ret = <<>>
    /\ last_op = "new"
    /\ pre_stage = "Idle"
    /\ run_start = "other"
    /\ run = 0
    /\ player = SamplePlayer_new
    /\ prm \in {p \in MixPrmSet : p.attack = 0}
    /\ process_count = 0
    /\ receiver = <<>>
    /\ pc = [at |-> "new", F |-> 0, i |-> 0, c |-> 0]
    /\ out = <<>>
    /\ obs = ObsNew
    /\ \E sample_rate \in HostRates, num_channel \in HostChannels :
          \E paths \in [MixSlots -> {None} \cup {Some(f) : f \in Files}] :
          \E prms \in {q \in [MixSlots -> MixPrmSet] : q[1].attack = 0} :
             pool = [players |-> [v \in MixSlots |->
                                     load_preset_sample(
                                         change_channel_number(
                                             change_sample_rate_output(
                                                 cleanup_wrapper(set_sample_path(SamplePlayer_new, paths[v])),
                                                 sample_rate),
                                             num_channel),
                                         TRUE)],
                     prms |-> prms,
                     process_count |-> 0,
                     receiver |-> <<>>,
                     out |-> <<>>,
                     mixed |-> <<>>,
                     swapped |-> <<>>,
                     solo |-> <<>>,
                     active |-> <<>>,
                     ev |-> NoEvent]
    /\ shifter = <<>>
    /\ blend = <<>>
    /\ gui = <<>>

\* HardKickSampler::process, one block
MixProcess ==
    /\ \E F \in 1..MaxBlock, events \in EventSeqs :
          LET loaded == pool_handle_messages(pool.players, pool.receiver)
              hc == pool_handle_context(loaded, pool.process_count, events)
              cleared == [k \in 1..(F * loaded[1].host_channels) |-> FZero]
              active == active_players(hc.players, pool.prms)
              filled == pool_fill(hc.players, pool.prms, cleared, hc.process_count, active)
              count == hc.process_count + F
              gain == FInt(pool.prms[1].plugin_gain)
              swapped == pool_fill(hc.players, pool.prms, cleared, hc.process_count,
                                   Reverse(active))
              solo == [v \in MixSlots |->
                          pool_fill(hc.players, pool.prms, cleared, hc.process_count,
                                    SelectSeq(active, LAMBDA w : w = v)).buffer]
          IN pool' =
               IF active = <<>>
               THEN [pool EXCEPT !.players = hc.players,
                                 !.process_count = hc.process_count,
                                 !.receiver = <<>>,
                                 !.out = cleared, !.mixed = cleared,
                                 !.swapped = cleared, !.solo = solo,
                                 !.active = active,
                                 !.ev = [kind |-> "begin"]]
               ELSE [pool EXCEPT !.players = [v \in MixSlots |->
                                     update_shared_position(filled.players[v],
                                                            pool.prms[v], count)],
                                 !.process_count = count,
                                 !.receiver = <<>>,
                                 !.out = [k \in DOMAIN cleared |->
                                             FMul(filled.buffer[k], gain)],
                                 !.mixed = filled.buffer,
                                 !.swapped = swapped.buffer,
                                 !.solo = solo,
                                 !.active = active,
                                 !.ev = [kind |-> "end"]]
    /\ UNCHANGED <<avars, vvars, shifter, gui, blend>>

NextMix ==
    \/ MixProcess

SpecMix == InitMix /\ [][NextMix]_vars

(***************************************************************************)
(* The audio thread and the editor thread around the two locks of a voice: *)
(* shared_buffer (Arc<RwLock<Option<AudioData>>>) and the sample_path      *)
(* parameter (RwLock<Option<PathBuf>>).  RwLock::write() and read() return  *)
(* at once when the lock is free and park the calling thread until it is    *)
(* free otherwise; no thread panics, so no lock is ever poisoned.           *)
(***************************************************************************)

RwLock_new == [readers |-> 0, writer |-> FALSE]

\* write() can return: nobody holds the lock
can_write(lock) == lock.readers = 0 /\ ~lock.writer

\* read() can return: no writer holds the lock
can_read(lock) == ~lock.writer

write_guard(lock) == [lock EXCEPT !.writer = TRUE]

read_guard(lock) == [lock EXCEPT !.readers = @ + 1]

drop_write_keepsGuard(lock) == lock

drop_write(lock) == [lock EXCEPT !.writer = FALSE]

drop_read(lock) == [lock EXCEPT !.readers = @ - 1]

LockResults ==
    {[type |-> "LoadedFile", path |-> f, data |-> f] : f \in Files}
        \cup {[type |-> "ClearSample"]}

\* what the audio thread is installing: the data and the path of the result
TaskData(task) == IF task.type = "LoadedFile" THEN Some(task.data) ELSE None

TaskPath(task) == IF task.type = "LoadedFile" THEN Some(task.path) ELSE None

store_shared_onlyData(shared, audio_data) ==
    IF IsSome(audio_data) THEN audio_data ELSE shared

\* *shared_guard = audio_data: the new content of the shared snapshot
store_shared(shared, audio_data) == audio_data

InitLock ==
    /\ adsr = MultiChannelAdsr_new(1)
    /\ params = [attack |-> 0, decay |-> 0, sustain |-> 0, release |-> 0]
    /\ ret = 0
    /\ first_ret = <<>>
    /\ last_op = "new"
    /\ pre_stage = "Idle"
    /\ run_start = "other"
    /\ run = 0
    /\ player = SamplePlayer_new
    /\ prm \in {p \in MixPrmSet : p.attack = 0}
    /\ process_count = 0
    /\ receiver = <<>>
    /\ pc = [at |-> "new", F |-> 0, i |-> 0, c |-> 0]
    /\ out = <<>>
    /\ obs = ObsNew
    /\ pool = <<>>
    /\ shifter = <<>>
    /\ blend = <<>>
    /\ \E path \in {None} \cup {Some(f) : f \in Files} :
          gui = [audio |-> [at |-> "idle", task |-> None, buffer |-> path],
                 ui |-> [at |-> "idle", seen |-> None, path_reads |-> 0],
                 buffer_lock |-> RwLock_new,
                 path_lock |-> RwLock_new,
                 shared_buffer |-> path,
                 sample_path |-> path,
                 installed |-> {path},
                 receiver |-> <<>>]

\* the task thread sends a result
LockTaskResult ==
    /\ Len(gui.receiver) < MaxInbox
    /\ \E task \in LockResults :
          gui' = [gui EXCEPT !.receiver = Append(@, task)]
    /\ UNCHANGED <<avars, vvars, pool, shifter, blend>>

\* the host calls process
AudioProcess ==
    /\ gui.audio.at = "idle"
    /\ gui' = [gui EXCEPT !.audio.at = "handle_messages"]
    /\ UNCHANGED <<avars, vvars, pool, shifter, blend>>

\* handle_messages: while let Ok(task) = receiver.try_recv()
AudioHandleMessages ==
    /\ gui.audio.at = "handle_messages"
    /\ gui' = IF gui.receiver = <<>>
              THEN [gui EXCEPT !.audio.at = "render"]
              ELSE [gui EXCEPT !.audio.at = "update_buffers",
                               !.audio.task = Some(Head(gui.receiver)),
                               !.receiver = Tail(@)]
    /\ UNCHANGED <<avars, vvars, pool, shifter, blend>>

\* update_buffers: the internal buffer, then self.shared_buffer.write()
AudioUpdateBuffers ==
    /\ gui.audio.at = "update_buffers"
    /\ gui' = IF can_write(gui.buffer_lock)
              THEN [gui EXCEPT !.audio.buffer = TaskData(Unwrap(gui.audio.task)),
                               !.installed = @ \cup {TaskData(Unwrap(gui.audio.task))},
                               !.audio.at = "buffer_write",
                               !.buffer_lock = write_guard(@)]
              ELSE [gui EXCEPT !.audio.buffer = TaskData(Unwrap(gui.audio.task)),
                               !.installed = @ \cup {TaskData(Unwrap(gui.audio.task))},
                               !.audio.at = "buffer_parked"]
    /\ UNCHANGED <<avars, vvars, pool, shifter, blend>>

\* the write() of update_buffers returns after the readers have gone
AudioBufferWake ==
    /\ gui.audio.at = "buffer_parked"
    /\ can_write(gui.buffer_lock)
    /\ gui' = [gui EXCEPT !.audio.at = "buffer_write",
                          !.buffer_lock = write_guard(@)]
    /\ UNCHANGED <<avars, vvars, pool, shifter, blend>>

\* *shared_guard = audio_data; the guard is dropped
AudioStoreShared ==
    /\ gui.audio.at = "buffer_write"
    /\ gui' = [gui EXCEPT !.shared_buffer = store_shared(@, TaskData(Unwrap(gui.audio.task))),
                          !.buffer_lock = drop_write(@),
                          !.audio.at = "set_sample_path"]
    /\ UNCHANGED <<avars, vvars, pool, shifter, blend>>

\* set_sample_path: sample_path.write()
AudioSetSamplePath ==
    /\ gui.audio.at = "set_sample_path"
    /\ gui' = IF can_write(gui.path_lock)
              THEN [gui EXCEPT !.audio.at = "path_write",
                               !.path_lock = write_guard(@)]
              ELSE [gui EXCEPT !.audio.at = "path_parked"]
    /\ UNCHANGED <<avars, vvars, pool, shifter, blend>>

AudioPathWake ==
    /\ gui.audio.at = "path_parked"
    /\ can_write(gui.path_lock)
    /\ gui' = [gui EXCEPT !.audio.at = "path_write",
                          !.path_lock = write_guard(@)]
    /\ UNCHANGED <<avars, vvars, pool, shifter, blend>>

\* *path_guard = file_path; the guard is dropped; back to the loop
AudioStorePath ==
    /\ gui.audio.at = "path_write"
    /\ gui' = [gui EXCEPT !.sample_path = TaskPath(Unwrap(gui.audio.task)),
                          !.path_lock = drop_write(@),
                          !.audio.task = None,
                          !.audio.at = "handle_messages"]
    /\ UNCHANGED <<avars, vvars, pool, shifter, blend>>

\* the rest of process; the callback returns
AudioRender ==
    /\ gui.audio.at = "render"
    /\ gui' = [gui EXCEPT !.audio.at = "idle"]
    /\ UNCHANGED <<avars, vvars, pool, shifter, blend>>

\* the editor's frame begins: states.shared_buffer[current_tab].read()
GuiFrame ==
    /\ gui.ui.at = "idle"
    /\ gui' = IF can_read(gui.buffer_lock)
              THEN [gui EXCEPT !.ui.at = "frame",
                               !.ui.seen = gui.shared_buffer,
                               !.ui.path_reads = 0,
                               !.buffer_lock = read_guard(@)]
              ELSE [gui EXCEPT !.ui.at = "buffer_parked"]
    /\ UNCHANGED <<avars, vvars, pool, shifter, blend>>

GuiBufferWake ==
    /\ gui.ui.at = "buffer_parked"
    /\ can_read(gui.buffer_lock)
    /\ gui' = [gui EXCEPT !.ui.at = "frame",
                          !.ui.seen = gui.shared_buffer,
                          !.ui.path_reads = 0,
                          !.buffer_lock = read_guard(@)]
    /\ UNCHANGED <<avars, vvars, pool, shifter, blend>>

\* render_sample_info_strip: get_sample_path, then get_sample_name, each
\* with its own sample_path.read()
GuiReadPath ==
    /\ gui.ui.at = "frame"
    /\ gui' = IF can_read(gui.path_lock)
              THEN [gui EXCEPT !.ui.at = "path_read", !.path_lock = read_guard(@)]
              ELSE [gui EXCEPT !.ui.at = "path_parked"]
    /\ UNCHANGED <<avars, vvars, pool, shifter, blend>>

GuiPathWake ==
    /\ gui.ui.at = "path_parked"
    /\ can_read(gui.path_lock)
    /\ gui' = [gui EXCEPT !.ui.at = "path_read", !.path_lock = read_guard(@)]
    /\ UNCHANGED <<avars, vvars, pool, shifter, blend>>

\* the path guard is dropped at the end of get_sample_path and of
\* get_sample_name
GuiDropPath ==
    /\ gui.ui.at = "path_read"
    /\ gui' = [gui EXCEPT !.ui.at = IF gui.ui.path_reads = 0 THEN "frame" ELSE "waveform",
                          !.ui.path_reads = gui.ui.path_reads + 1,
                          !.path_lock = drop_read(@)]
    /\ UNCHANGED <<avars, vvars, pool, shifter, blend>>

\* render_waveform_display, then the closure ends and guard_option is dropped
GuiFrameEnd ==
    /\ gui.ui.at = "waveform"
    /\ gui' = [gui EXCEPT !.ui.at = "idle", !.ui.seen = None,
                          !.ui.path_reads = 0,
                          !.buffer_lock = drop_read(@)]
    /\ UNCHANGED <<avars, vvars, pool, shifter, blend>>

NextLock ==
    \/ LockTaskResult
    \/ AudioProcess
    \/ AudioHandleMessages
    \/ AudioUpdateBuffers
    \/ AudioBufferWake
    \/ AudioStoreShared
    \/ AudioSetSamplePath
    \/ AudioPathWake
    \/ AudioStorePath
    \/ AudioRender
    \/ GuiFrame
    \/ GuiBufferWake
    \/ GuiReadPath
    \/ GuiPathWake
    \/ GuiDropPath
    \/ GuiFrameEnd

SpecLock == InitLock /\ [][NextLock]_vars

(***************************************************************************)
(* The two threads while they are scheduled: a thread that can take its    *)
(* next step takes it, and a thread parked on a lock is woken when the lock *)
(* is released to it.  Nothing forces the host to call process, the task   *)
(* thread to send a result or the editor to begin a frame.                 *)
(***************************************************************************)
FairAudio ==
    /\ WF_vars(AudioHandleMessages)
    /\ WF_vars(AudioUpdateBuffers)
    /\ SF_vars(AudioBufferWake)
    /\ WF_vars(AudioStoreShared)
    /\ WF_vars(AudioSetSamplePath)
    /\ SF_vars(AudioPathWake)
    /\ WF_vars(AudioStorePath)
    /\ WF_vars(AudioRender)

FairGui ==
    /\ SF_vars(GuiBufferWake)
    /\ WF_vars(GuiReadPath)
    /\ SF_vars(GuiPathWake)
    /\ WF_vars(GuiDropPath)
    /\ WF_vars(GuiFrameEnd)

SpecLockFair == InitLock /\ [][NextLock]_vars /\ FairAudio /\ FairGui

(***************************************************************************)
(* The pitch-shift strategies: trait PitchShifter, ClassicShifter and      *)
(* PsolaShifter.  The pitch detector and the TD-PSOLA synthesis are library *)
(* code: the detected wavelength and the synthesized streams are inputs.    *)
(***************************************************************************)

MaxPos == 4
PosDen == 2
MaxStream == 2

\* the positions asked for: f32 values, here the multiples of 1 / PosDen
Positions == {Frac(k, PosDen) : k \in 0..(MaxPos * PosDen)}

\* values of sr_correction and playback_rate
ShiftRates == {FZero, Frac(1, 2), FOne, FInt(2)}

ShiftOffsets == {0, SEMITONE_PER_OCTAVE}

\* the samples handed to load_sample: the decoded files and the two-channel,
\* four-frame buffer [0,0,1,1,2,2,3,3]
ShiftFiles ==
    Files \cup {[data |-> <<0, 0, 1, 1, 2, 2, 3, 3>>, channels |-> 2, sample_rate |-> 1]}

\* detector.get_pitch: None, or the wavelength sample_rate / frequency
PitchResults == {None, Some(1), Some(2)}

\* impl From<Vec<f32>> for FrameOutput
FrameOutput_from(value) ==
    IF Len(value) = 1 THEN [kind |-> "Mono", v |-> value]
    ELSE IF Len(value) = 2 THEN [kind |-> "Stereo", v |-> value]
    ELSE [kind |-> "Unsupported", v |-> <<>>]

ClassicShifter_new ==
    [sample_buffer |-> None, channel_number |-> 0, sample_rate |-> 0,
     playback_rate |-> FOne, sr_correction |-> FOne, is_loaded |-> FALSE]

ClassicShifter_get_playback_position(self, position, channel_index) ==
    get_stretch_playback_position(position, self.sr_correction, self.playback_rate, self.channel_number, channel_index)

ClassicShifter_interpolate_hold(current, next_sample, fraction) == current

ClassicShifter_interpolate(current, next_sample, fraction) ==
    FAdd(current, FMul(FSub(next_sample, current), fraction))

ClassicShifter_clear_sample_keepBuffer(self) ==
    [ClassicShifter_new EXCEPT !.sample_buffer = self.sample_buffer,
                               !.channel_number = self.channel_number]

ClassicShifter_clear_sample(self) ==
    [self EXCEPT !.sample_buffer = None, !.channel_number = 0, !.sample_rate = 0,
                 !.playback_rate = FOne, !.sr_correction = FOne, !.is_loaded = FALSE]

ClassicShifter_load_sample(self, sample_buffer, channel_number, sample_rate) ==
    [self EXCEPT !.sample_buffer = Some(sample_buffer),
                 !.channel_number = channel_number,
                 !.sample_rate = sample_rate,
                 !.is_loaded = TRUE]

ClassicShifter_trigger(self, sr_correction, playback_rate) ==
    [self EXCEPT !.sr_correction = sr_correction, !.playback_rate = playback_rate]

ClassicShifter_ready(self) == self.is_loaded /\ IsSome(self.sample_buffer)

\* get_frame, the value of one channel; None for the arm that returns None
ClassicShifter_sample_value_needsNext(self, position, channel_index) ==
    LET buffer == Unwrap(self.sample_buffer)
        pos == ClassicShifter_get_playback_position(self, position, channel_index)
        current_sample == Get(buffer, pos[1])
        next_sample == Get(buffer, pos[1] + self.channel_number)
    IN IF IsSome(current_sample) /\ IsSome(next_sample)
       THEN Some(ClassicShifter_interpolate(Unwrap(current_sample), Unwrap(next_sample), pos[2]))
       ELSE None

ClassicShifter_sample_value(self, position, channel_index) ==
    LET buffer == Unwrap(self.sample_buffer)
        pos == ClassicShifter_get_playback_position(self, position, channel_index)
        current_sample == Get(buffer, pos[1])
        next_sample == Get(buffer, pos[1] + self.channel_number)
    IN IF IsSome(current_sample) /\ IsSome(next_sample)
       THEN Some(ClassicShifter_interpolate(Unwrap(current_sample), Unwrap(next_sample), pos[2]))
       ELSE IF IsSome(current_sample) THEN current_sample
       ELSE None

\* get_frame, the loop over the channels from channel_index on
RECURSIVE ClassicShifter_frame_from(_, _, _, _)
ClassicShifter_frame_from(self, position, channel_index, frame) ==
    IF channel_index >= self.channel_number THEN Some(frame)
    ELSE LET sample_value == ClassicShifter_sample_value(self, position, channel_index) IN
         IF IsSome(sample_value)
         THEN ClassicShifter_frame_from(self, position, channel_index + 1,
                                        Append(frame, Unwrap(sample_value)))
         ELSE None

ClassicShifter_get_frame(self, position) ==
    IF IsSome(self.sample_buffer)
    THEN ClassicShifter_frame_from(self, position, 0, <<>>)
    ELSE None

\* sample_buffer.iter().skip(channel).step_by(channel_number)
RECURSIVE StepBy(_, _, _)
StepBy(buffer, from, step) ==
    IF from >= Len(buffer) THEN <<>>
    ELSE <<buffer[from + 1]>> \o StepBy(buffer, from + step, step)

PsolaShifter_new ==
    [hanns |-> 0, analysis |-> <<>>, synthesis |-> None, iter_samples |-> None,
     source_length |-> 0, is_loaded |-> FALSE,
     sr_correction |-> FOne, playback_rate |-> FOne]

PsolaShifter_clear_sample(self) ==
    [self EXCEPT !.hanns = 0, !.analysis = <<>>, !.synthesis = None,
                 !.iter_samples = None, !.source_length = 0, !.is_loaded = FALSE]

\* pitch is the result of detector.get_pitch on the first channel
PsolaShifter_build_internal_keepState(self, sample_buffer, channel_number, sample_rate, pitch) ==
    IF IsSome(pitch)
    THEN LET source_wavelength == Unwrap(pitch)
             padding_length == source_wavelength + 1
         IN [self EXCEPT
                !.hanns = channel_number,
                !.analysis = [channel \in 1..channel_number |->
                                 [k \in 1..padding_length |-> 0]
                                     \o StepBy(sample_buffer, channel - 1, channel_number)],
                !.synthesis = None,
                !.iter_samples = None,
                !.source_length = source_wavelength,
                !.is_loaded = TRUE]
    ELSE self

PsolaShifter_build_internal(self, sample_buffer, channel_number, sample_rate, pitch) ==
    IF IsSome(pitch)
    THEN LET source_wavelength == Unwrap(pitch)
             padding_length == source_wavelength + 1
         IN [self EXCEPT
                !.hanns = channel_number,
                !.analysis = [channel \in 1..channel_number |->
                                 [k \in 1..padding_length |-> 0]
                                     \o StepBy(sample_buffer, channel - 1, channel_number)],
                !.synthesis = None,
                !.iter_samples = None,
                !.source_length = source_wavelength,
                !.is_loaded = TRUE]
    ELSE PsolaShifter_clear_sample(self)

PsolaShifter_load_sample(self, sample_buffer, channel_number, sample_rate, pitch) ==
    PsolaShifter_build_internal(self, sample_buffer, channel_number, sample_rate, pitch)

\* utils::semitone_offset_to_playback_rate: 2^(semitone_offset / 12)
semitone_offset_to_playback_rate(semitone_offset) == PowOctaves(semitone_offset)

\* what s.iter(a).skip(source_length + 1).collect() can yield for each channel
SynthesisStreams(self) ==
    [1..self.hanns -> {[k \in 1..n |-> FInt(k)] : n \in 0..MaxStream}]

\* streams is the output of the synthesis, one stream for each channel
PsolaShifter_trigger(self, sr_correction, semitone_offset, streams) ==
    IF ~self.is_loaded THEN self
    ELSE [self EXCEPT
             !.playback_rate = semitone_offset_to_playback_rate(semitone_offset),
             !.sr_correction = sr_correction,
             !.iter_samples = Some(streams),
             !.synthesis = Some([speed |-> sr_correction,
                                 wavelength |-> FDiv(FInt(self.source_length),
                                                     semitone_offset_to_playback_rate(semitone_offset))])]

PsolaShifter_ready(self) == self.is_loaded /\ IsSome(self.iter_samples)

PsolaShifter_index(self, position) == AsUsize(FMul(position, self.sr_correction))

PsolaShifter_get_frame(self, position) ==
    IF IsSome(self.iter_samples)
    THEN LET channels == Unwrap(self.iter_samples)
             index == PsolaShifter_index(self, position)
         IN IF \A c \in DOMAIN channels : index < Len(channels[c])
            THEN Some(FrameOutput_from([c \in DOMAIN channels |-> channels[c][index + 1]]))
            ELSE None
    ELSE None

\* the trait methods on a strategy of either kind
PitchShifter_new(kind) ==
    IF kind = "Classic" THEN ClassicShifter_new ELSE PsolaShifter_new

PitchShifter_clear_sample(kind, self) ==
    IF kind = "Classic" THEN ClassicShifter_clear_sample(self)
    ELSE PsolaShifter_clear_sample(self)

PitchShifter_ready(kind, self) ==
    IF kind = "Classic" THEN ClassicShifter_ready(self) ELSE PsolaShifter_ready(self)

PitchShifter_get_frame(kind, self, position) ==
    IF kind = "Classic" THEN ClassicShifter_get_frame(self, position)
    ELSE PsolaShifter_get_frame(self, position)

\* the calls made on the strategy so far
Phase(sh) ==
    IF sh.loaded /\ sh.triggered THEN "triggered"
    ELSE IF sh.loaded THEN "loaded" ELSE "new"

InitShift ==
    /\ adsr = MultiChannelAdsr_new(1)
    /\ params = [attack |-> 0, decay |-> 0, sustain |-> 0, release |-> 0]
    /\ ret = 0
    /\ first_ret = <<>>
    /\ last_op = "new"
    /\ pre_stage = "Idle"
    /\ run_start = "other"
    /\ run = 0
    /\ player = SamplePlayer_new
    /\ prm \in {p \in MixPrmSet : p.attack = 0}
    /\ process_count = 0
    /\ receiver = <<>>
    /\ pc = [at |-> "new", F |-> 0, i |-> 0, c |-> 0]
    /\ out = <<>>
    /\ obs = ObsNew
    /\ pool = <<>>
    /\ blend = <<>>
    /\ \E kind \in {"Classic", "Psola"} :
          shifter = [kind |-> kind, s |-> PitchShifter_new(kind),
                     loaded |-> FALSE, triggered |-> FALSE, cleared |-> "no",
                     failed |-> "no",
                     last |-> "new", got |-> None]
    /\ gui = <<>>

ShifterClear ==
    /\ shifter' = [shifter EXCEPT
                      !.s = PitchShifter_clear_sample(shifter.kind, shifter.s),
                      !.loaded = FALSE, !.triggered = FALSE,
                      !.cleared = Phase(shifter),
                      !.last = "clear_sample", !.got = None]
    /\ UNCHANGED <<avars, vvars, pool, gui, blend>>

ShifterLoad ==
    /\ \E f \in ShiftFiles, pitch \in PitchResults :
          shifter' = [shifter EXCEPT
                         !.s = IF shifter.kind = "Classic"
                               THEN ClassicShifter_load_sample(shifter.s, f.data, f.channels, f.sample_rate)
                               ELSE PsolaShifter_load_sample(shifter.s, f.data, f.channels, f.sample_rate, pitch),
                         !.loaded = TRUE, !.triggered = FALSE, !.cleared = "no",
                         !.failed = IF shifter.kind = "Psola" /\ pitch = None
                                    THEN (IF PsolaShifter_ready(shifter.s)
                                          THEN "ready" ELSE "not_ready")
                                    ELSE "no",
                         !.last = "load_sample", !.got = None]
    /\ UNCHANGED <<avars, vvars, pool, gui, blend>>

ShifterTrigger ==
    /\ \E sr_correction \in ShiftRates :
          \/ /\ shifter.kind = "Classic"
             /\ \E playback_rate \in ShiftRates :
                   shifter' = [shifter EXCEPT
                                  !.s = ClassicShifter_trigger(shifter.s, sr_correction, playback_rate),
                                  !.triggered = TRUE, !.last = "trigger", !.got = None]
          \/ /\ shifter.kind = "Psola"
             /\ \E semitone_offset \in ShiftOffsets, streams \in SynthesisStreams(shifter.s) :
                   shifter' = [shifter EXCEPT
                                  !.s = PsolaShifter_trigger(shifter.s, sr_correction, semitone_offset, streams),
                                  !.triggered = TRUE, !.last = "trigger", !.got = None]
    /\ UNCHANGED <<avars, vvars, pool, gui, blend>>

ShifterGetFrame ==
    /\ \E position \in Positions :
          shifter' = [shifter EXCEPT
                         !.last = "get_frame",
                         !.got = Some([position |-> position,
                                       ret |-> PitchShifter_get_frame(shifter.kind, shifter.s, position)])]
    /\ UNCHANGED <<avars, vvars, pool, gui, blend>>

NextShift ==
    \/ ShifterClear
    \/ ShifterLoad
    \/ ShifterTrigger
    \/ ShifterGetFrame

SpecShift == InitShift /\ [][NextShift]_vars

(***************************************************************************)
(* Properties of the envelope.                                             *)
(***************************************************************************)

\* C1: note_on(), called in any stage, leaves the envelope in stage Attack
\* with stage_progress = 0.
C1_NoteOnRestartsAttack ==
    last_op = "note_on" => adsr.stage = "Attack" /\ adsr.stage_progress = 0

\* note_on() was called during a Release already in progress
C1_Witness ==
    last_op = "note_on" /\ pre_stage = "Release" /\ adsr.current_value > 0

\* C2: note_off() in stage Idle changes nothing; in any other stage it sets
\* the stage to Release and stage_progress to 0.
C2_NoteOffReleasesUnlessIdle ==
    [][last_op' = "note_off" =>
          IF adsr.stage = "Idle"
          THEN adsr' = adsr
          ELSE /\ adsr'.stage = "Release"
               /\ adsr'.stage_progress = 0
               /\ adsr'.current_value = adsr.current_value]_vars

\* note_off() was called during a Decay
C2_Witness ==
    last_op = "note_off" /\ pre_stage = "Decay" /\ adsr.stage = "Release"

\* C3: next_value(.., is_first_channel = false) returns the value produced by
\* the most recent is_first_channel = true call and leaves stage,
\* stage_progress and current_value unchanged.
C3_OtherChannelsReadFirstChannelValue ==
    [][last_op' = "next_other" =>
          /\ adsr' = adsr
          /\ ret' = adsr.current_value
          /\ (first_ret # <<>> => ret' = first_ret[1])]_vars

\* a second channel read a non-zero Decay value computed on the first channel
C3_Witness ==
    /\ last_op = "next_other"
    /\ first_ret # <<>>
    /\ adsr.stage = "Decay"
    /\ adsr.stage_progress > 0
    /\ ret # 0

AtSustain ==
    /\ adsr.stage = "Sustain"
    /\ adsr.current_value = Level(params.sustain)
    /\ ret = Level(params.sustain)

\* C4: after note_on(), with the parameters held constant and no further
\* note_on/note_off, finitely many advancing calls bring the envelope to
\* stage Sustain with current_value = sustain, for every sustain (also < 0
\* and > 1), and it stays there.
C4_SustainReachedAndHeld == <>[]AtSustain

\* Sustain reached through a real Attack and Decay with sustain above 1.0
C4_Witness ==
    /\ AtSustain
    /\ params.sustain > SusDen
    /\ params.attack > 0
    /\ params.decay > 0

\* value and stage after the k-th advancing call following note_off()
ReleaseValueAfter(k) ==
    LET release_samples == Samples(params.release, adsr.sample_rate) IN
    IF (k - 1) * TimeDen < release_samples
    THEN Mul(Level(params.sustain), One - ProgressRatio(k - 1, release_samples))
    ELSE 0

ReleaseStageAfter(k) ==
    IF (k - 1) * TimeDen < Samples(params.release, adsr.sample_rate)
    THEN "Release" ELSE "Idle"

\* C5 (as amended): after note_off() in a non-Idle stage, with the parameters
\* held constant, the k-th advancing call returns
\* sustain * (1 - (k-1)/(release*sample_rate)) while k-1 < release*sample_rate
\* (so the first Release value is sustain when release*sample_rate > 0); the
\* first call with k-1 >= release*sample_rate sets current_value to 0 and
\* moves to Idle.
C5_ReleaseRampFromSustain ==
    (run_start = "off" /\ run >= 1) =>
        /\ first_ret = <<ReleaseValueAfter(run)>>
        /\ adsr.current_value = ReleaseValueAfter(run)
        /\ adsr.stage = ReleaseStageAfter(run)

\* the second call of a Release ramp from a sustain level other than 0 and 1
C5_Witness ==
    /\ run_start = "off"
    /\ run = 2
    /\ adsr.stage = "Release"
    /\ adsr.current_value # 0
    /\ params.sustain \notin {0, SusDen}

\* C5 (as stated): the first value returned in Release equals the sustain level.
C5_FirstReleaseValueIsSustain ==
    (run_start = "off" /\ run = 1) => first_ret = <<Level(params.sustain)>>

AllTimesZero == params.attack = 0 /\ params.decay = 0 /\ params.release = 0

\* C6: a zero-duration stage is passed through within one advancing call:
\* attack = 0: the call after note_on() leaves Attack and returns 1.0;
\* attack = decay = 0: that call reaches Sustain; release = 0: the call after
\* note_off() reaches Idle and returns 0.0; with all three 0 every advancing
\* call ends in a terminal stage (Sustain or Idle).
C6_ZeroDurationStagesCollapse ==
    /\ (run_start = "on" /\ run = 1 /\ params.attack = 0) =>
           adsr.stage # "Attack" /\ first_ret = <<One>>
    /\ (run_start = "on" /\ run = 1 /\ params.attack = 0 /\ params.decay = 0) =>
           adsr.stage = "Sustain"
    /\ (run_start = "off" /\ run = 1 /\ params.release = 0) =>
           adsr.stage = "Idle" /\ first_ret = <<0>>
    /\ (last_op = "next_first" /\ AllTimesZero) =>
           adsr.stage \in {"Sustain", "Idle"}

\* the single call after note_on() with attack = decay = release = 0
C6_Witness ==
    /\ run_start = "on"
    /\ run = 1
    /\ last_op = "next_first"
    /\ AllTimesZero
    /\ adsr.stage = "Sustain"

\* this step and the one before it are advancing calls executed in stage st
TwoCallsIn(st) ==
    /\ last_op = "next_first"
    /\ pre_stage = st
    /\ adsr.stage = st
    /\ last_op' = "next_first"

\* C7 (as amended): for two consecutive advancing calls executed in the same
\* stage with the same parameters, the returned values are non-decreasing in
\* Attack, non-increasing in Decay when sustain <= 1, and non-increasing in
\* Release when sustain >= 0.
C7_MonotoneWithinStage ==
    [][/\ TwoCallsIn("Attack") => ret' >= ret
       /\ (TwoCallsIn("Decay") /\ params.sustain <= SusDen) => ret' <= ret
       /\ (TwoCallsIn("Release") /\ params.sustain >= 0) => ret' <= ret]_vars

\* two consecutive calls were executed in a Decay ramp
C7_Witness ==
    /\ last_op = "next_first"
    /\ pre_stage = "Decay"
    /\ adsr.stage = "Decay"
    /\ adsr.stage_progress = 2
    /\ run >= 2
    /\ ret < One

\* C7 (as stated): non-decreasing in Attack, non-increasing in Decay and in
\* Release, for every parameter combination.
C7_MonotoneForAllParameters ==
    [][/\ TwoCallsIn("Attack") => ret' >= ret
       /\ TwoCallsIn("Decay") => ret' <= ret
       /\ TwoCallsIn("Release") => ret' <= ret]_vars

\* time * sample_rate is a positive whole number of samples
WholeSamples(time) ==
    /\ Samples(time, adsr.sample_rate) > 0
    /\ Samples(time, adsr.sample_rate) % TimeDen = 0

SampleCount(time) == Samples(time, adsr.sample_rate) \div TimeDen

\* C8: with N = attack*sample_rate and D = decay*sample_rate positive
\* integers and constant parameters: N advancing calls after note_on() leave
\* the stage Attack; after N+1 calls the stage is Decay and current_value is
\* 1.0; after D+1 further calls the stage is Sustain and current_value is
\* sustain.
C8_AttackAndDecayLengths ==
    (run_start = "on" /\ WholeSamples(params.attack) /\ WholeSamples(params.decay)) =>
        LET N == SampleCount(params.attack)
            D == SampleCount(params.decay) IN
        /\ (1 <= run /\ run <= N) => adsr.stage = "Attack"
        /\ run = N + 1 => adsr.stage = "Decay" /\ adsr.current_value = One
        /\ (N + 1 < run /\ run <= N + 1 + D) => adsr.stage = "Decay"
        /\ (run = N + 1 + D + 1 /\ run < MaxRun) =>
               adsr.stage = "Sustain" /\ adsr.current_value = Level(params.sustain)

\* Sustain reached after exactly N+1+D+1 calls with N = D = 2
C8_Witness ==
    /\ run_start = "on"
    /\ WholeSamples(params.attack)
    /\ WholeSamples(params.decay)
    /\ SampleCount(params.attack) = 2
    /\ SampleCount(params.decay) = 2
    /\ run = 6
    /\ adsr.stage = "Sustain"
    /\ params.sustain \notin {0, SusDen}

(***************************************************************************)
(* Properties of the sample player.                                        *)
(***************************************************************************)

\* the voice was not silent at any call of the frame just completed, and
\* was not stopped in it
FramePlayed ==
    /\ obs.fr_done
    /\ \A k \in 1..Len(obs.arms) : obs.arms[k] \in {"played", "before_start"}

\* C9: for every output frame of a playing voice the envelope is advanced
\* exactly once, on channel 0, every channel of the frame is multiplied by
\* the same envelope value, and a block of F frames of a playing voice
\* advances the envelope by exactly F steps.
C9_EnvelopeAdvancedOncePerFrame ==
    /\ FramePlayed =>
          /\ obs.adv = 1
          /\ \A k \in 1..Len(obs.envs) :
                IsSome(obs.envs[k]) /\ obs.envs[k] = obs.envs[1]
    /\ (pc.at = "end" /\ obs.blk_live = pc.F) => obs.blk_adv = pc.F

\* a frame whose channel 0 returned before the envelope call while channel
\* 1 was rendered with the value left by an earlier note
C9_StaleEnvelopeFrame ==
    /\ obs.fr_done
    /\ obs.arms = <<"before_start", "played">>
    /\ obs.ret # FZero

\* C10: when the read position of a playing voice falls past the end of its
\* buffer during next(), that call clears the current note, resets the
\* envelope to Idle and returns 0.0, and every later next() call returns 0.0
\* until a new start_playing.
C10_HardStopAtEndOfBuffer ==
    /\ obs.arm = "out_of_bounds" =>
          /\ player.midi_note = None
          /\ player.adsr.stage = "Idle"
          /\ obs.ret = FZero
    /\ obs.stopped =>
          /\ player.midi_note = None
          /\ is_idling(player.adsr)
          /\ obs.arm # "none" => obs.ret = FZero

\* the first channel of a frame ran past the end of the buffer and the call
\* for the next channel of the block has returned 0.0
C10_Witness ==
    /\ obs.stopped
    /\ obs.arms = <<"out_of_bounds", "silent">>
    /\ obs.arm = "silent"
    /\ obs.ret = FZero
    /\ IsSome(player.buffer)
    /\ ~prm.muted

\* a step that begins process
BeginStep == pc.at = "idle" /\ obs'.ev.kind = "begin"

\* the player when handle_context starts, in a step that begins process
Loaded == handle_messages(player, receiver)

\* the step handled exactly these events
Handled(events) ==
    LET hc == process_begin(player, process_count, receiver, events) IN
    /\ player' = hc.player
    /\ process_count' = hc.process_count

\* C11: start_playing(note) changes the player only if a buffer is loaded:
\* then the current note becomes note - 60 and the envelope is in Attack with
\* progress 0; with no buffer the note and the envelope are unchanged and the
\* voice stays silent.
C11_StartPlayingNeedsBuffer ==
    [][BeginStep =>
        \A e \in NoteEvents :
            (e.type = "NoteOn" /\ Handled(<<e>>)) =>
                IF IsSome(Loaded.buffer)
                THEN player' = [Loaded EXCEPT
                                   !.midi_note = Some(e.note - 60),
                                   !.adsr.stage = "Attack",
                                   !.adsr.stage_progress = 0]
                ELSE /\ player' = Loaded
                     /\ is_silent(player', prm')
                     /\ pc'.at = "idle"]_vars

\* a note an octave above the base note has just started a loaded voice
\* whose envelope had a value left from an earlier note
C11_Witness ==
    /\ obs.ev.kind = "begin"
    /\ IsSome(player.buffer)
    /\ player.midi_note = Some(12)
    /\ player.adsr.stage = "Attack"
    /\ player.adsr.stage_progress = 0
    /\ player.adsr.current_value > 0

\* the voice is in Release and still rendering
Releasing == player.adsr.stage = "Release" /\ ~is_silent(player, prm)

\* what a NoteOff handled at the beginning of process does to the player
StopRequestsRelease ==
    BeginStep =>
        \A e \in NoteEvents :
            (e.type = "NoteOff" /\ Handled(<<e>>)) =>
                /\ player' = [Loaded EXCEPT
                                 !.adsr = IF Loaded.adsr.stage = "Idle" THEN Loaded.adsr
                                          ELSE [Loaded.adsr EXCEPT !.stage = "Release",
                                                                   !.stage_progress = 0]]
                /\ ~is_silent(Loaded, prm) => (~is_silent(player', prm') /\ pc'.at = "frames")

\* C12: stop_playing() moves the envelope to Release (no-op when Idle) and
\* leaves the current note and the buffer untouched, so the voice keeps
\* rendering; with blocks continuing to be processed and no new note-on the
\* voice eventually becomes silent.
C12_StopReleasesThenSilent ==
    /\ [][StopRequestsRelease]_vars
    /\ Releasing ~> (is_silent(player, prm) \/ player.adsr.stage = "Attack")

\* a block ended with the voice in Release, its note and buffer still there
C12_Witness ==
    /\ Releasing
    /\ obs.ev.kind = "end"
    /\ IsSome(player.midi_note)
    /\ player.adsr.current_value > 0

\* is_silent() is the disjunction of the three conditions
SilentIffIdleMutedOrEmpty ==
    is_silent(player, prm) <=>
        (player.adsr.stage = "Idle" \/ prm.muted \/ player.buffer = None)

\* a step that processes one slot
SlotStep == pc.at = "frames" /\ pc' # pc

\* C13: is_silent() is true exactly when the envelope is Idle, or the voice
\* is muted, or no buffer is loaded; when it is true next() returns 0.0 and
\* changes neither the envelope nor the current note, and a voice that is
\* silent when the block's players are selected is skipped for that block.
C13_SilentVoiceIsInert ==
    [][/\ SilentIffIdleMutedOrEmpty
       /\ SilentIffIdleMutedOrEmpty'
       /\ (SlotStep /\ is_silent(player, prm)) =>
              /\ obs'.ret = FZero
              /\ player' = player
              /\ out' = out
       /\ (BeginStep /\ is_silent(player', prm')) =>
              /\ pc'.at = "idle"
              /\ \A k \in DOMAIN out' : out'[k] = FZero]_vars

\* next() was called for a voice with a buffer whose envelope is Idle, in
\* the middle of a block, and returned 0.0
C13_Witness ==
    /\ pc.at = "frames"
    /\ obs.arm = "silent"
    /\ obs.ret = FZero
    /\ player.adsr.stage = "Idle"
    /\ IsSome(player.buffer)
    /\ \E k \in DOMAIN out : out[k] # FZero


\* C14: when several voices fill one buffer, each slot ends up holding its
\* content from before the voices ran (zero: process clears the buffer) plus
\* the sum of what each voice contributes to that slot, whatever the order in
\* which the voices run.
C14_VoicesMixAdditively ==
    pool.ev.kind = "end" =>
        /\ pool.mixed = pool.swapped
        /\ \A k \in DOMAIN pool.mixed :
              pool.mixed[k] = FAdd(FAdd(FZero, pool.solo[1][k]), pool.solo[2][k])

C14_Witness ==
    /\ pool.ev.kind = "end"
    /\ Len(pool.active) = Cardinality(MixSlots)
    /\ \E k \in DOMAIN pool.mixed :
          /\ pool.solo[1][k] # FZero
          /\ pool.solo[2][k] # FZero
          /\ pool.solo[1][k] # pool.solo[2][k]
          /\ pool.mixed[k] = FAdd(pool.solo[1][k], pool.solo[2][k])

\* a result of the task thread waits in the channel across this step
StaysPending == Len(receiver') >= Len(receiver) /\ SubSeq(receiver', 1, Len(receiver)) = receiver

\* C15: the results of the background task thread (LoadedFile, ClearSample)
\* reach a voice only at the beginning of process, in handle_messages, before
\* the block's MIDI events and before its frames; until then they wait in the
\* channel, and the buffer of the voice never changes inside a block.
C15_ResultsAppliedAtBlockStart ==
    [][/\ BeginStep =>
            /\ receiver' = <<>>
            /\ player'.buffer = handle_messages(player, receiver).buffer
            /\ \E events \in EventSeqs :
                  player' = handle_context(handle_messages(player, receiver),
                                           process_count, events).player
       /\ ~BeginStep => StaysPending
       /\ pc.at \in {"frames", "end"} =>
            /\ player'.buffer = player.buffer
            /\ player'.sample_path = player.sample_path
            /\ player'.sample_rate = player.sample_rate
            /\ player'.sample_channels = player.sample_channels]_vars

C15_Witness ==
    /\ pc.at = "frames"
    /\ pc.i > 0
    /\ obs.arm = "played"
    /\ \E f \in TaskFiles :
          /\ receiver = <<[type |-> "LoadedFile", path |-> f, data |-> f]>>
          /\ IsSome(player.buffer)
          /\ player.buffer # Some(f)

\* process has just returned: after its last statement or from the early
\* return taken when no player is active
ProcessReturned == obs.ev.kind = "end" \/ (obs.ev.kind = "begin" /\ pc.at = "idle")

PositionAsSpecified ==
    player.shared_playback_position =
        IF is_silent(player, prm) THEN 0
        ELSE AsUsize(FMul(FMul(get_playback_rate(player, prm), get_sr_correction(player)),
                          FInt(process_count)))

\* C17: the shared playback position is written on every processed block:
\* after any process callback returns it is 0 for a silent voice and
\* floor(playback_rate * sr_correction * process_count) for any other voice.
C17_PositionWrittenEveryBlock == ProcessReturned => PositionAsSpecified

\* process returned early with a silent voice whose position was left as the
\* last rendered block wrote it
C17_StalePosition ==
    /\ obs.ev.kind = "begin"
    /\ pc.at = "idle"
    /\ is_silent(player, prm)
    /\ player.shared_playback_position > 0

\* the blocks that run to the last statement of process do write the position
PositionWrittenAfterRenderedBlock == obs.ev.kind = "end" => PositionAsSpecified

\* C16: the audio thread never waits for a lock of the state it shares with
\* the editor (an update that finds the lock held fails or is skipped), and
\* the editor reads with a try-read and never waits either.
C16_NoThreadWaitsForALock ==
    /\ gui.audio.at \notin {"buffer_parked", "path_parked"}
    /\ gui.ui.at \notin {"buffer_parked", "path_parked"}

\* the audio thread is parked in update_buffers, inside process, while the
\* editor's frame holds the read guard of shared_buffer
C16_AudioWaitsForEditor ==
    /\ gui.audio.at = "buffer_parked"
    /\ gui.ui.at \in {"frame", "path_read", "waveform"}
    /\ gui.buffer_lock.readers = 1
    /\ gui.audio.buffer # gui.shared_buffer

\* C18: for both strategies ready() is false until a sample has been loaded
\* and trigger() has been called after that load: false in a fresh instance,
\* after clear_sample(), and right after load_sample() before any trigger().
C18_ReadyOnlyAfterLoadAndTrigger ==
    PitchShifter_ready(shifter.kind, shifter.s) => (shifter.loaded /\ shifter.triggered)

\* a ClassicShifter that has just been loaded and never triggered is ready
C18_ClassicReadyBeforeTrigger ==
    /\ shifter.kind = "Classic"
    /\ shifter.last = "load_sample"
    /\ ~shifter.triggered
    /\ PitchShifter_ready(shifter.kind, shifter.s)

\* the PsolaShifter does wait for trigger()
PsolaReadyOnlyAfterTrigger ==
    shifter.kind = "Psola" => C18_ReadyOnlyAfterLoadAndTrigger

\* C19: clear_sample(), from any state, leaves ready() false and get_frame
\* returning None at every position until the next load, and clearing twice
\* gives the same state as clearing once.
C19_ClearLeavesNothingToPlay ==
    LET once == PitchShifter_clear_sample(shifter.kind, shifter.s) IN
    /\ shifter.cleared # "no" =>
          /\ ~PitchShifter_ready(shifter.kind, shifter.s)
          /\ \A p \in Positions : PitchShifter_get_frame(shifter.kind, shifter.s, p) = None
    /\ ~PitchShifter_ready(shifter.kind, once)
    /\ \A p \in Positions : PitchShifter_get_frame(shifter.kind, once, p) = None
    /\ PitchShifter_clear_sample(shifter.kind, once) = once

C19_Witness ==
    /\ shifter.cleared = "triggered"
    /\ shifter.triggered
    /\ shifter.last = "get_frame"
    /\ Unwrap(shifter.got) = [position |-> FZero, ret |-> None]

\* the source frame of a position and the number of loaded frames
SourceFrame(sh, p) ==
    IF sh.kind = "Classic"
    THEN AsUsize(FMul(sh.s.playback_rate, FMul(p, sh.s.sr_correction)))
    ELSE PsolaShifter_index(sh.s, p)

\* the stream played by a PsolaShifter is the synthesized one
LoadedFrames(sh) ==
    IF sh.kind = "Classic"
    THEN Len(Unwrap(sh.s.sample_buffer)) \div sh.s.channel_number
    ELSE LET channels == Unwrap(sh.s.iter_samples) IN
         CHOOSE n \in 0..MaxStream :
             /\ \A c \in DOMAIN channels : n <= Len(channels[c])
             /\ \E c \in DOMAIN channels : n = Len(channels[c])

\* loaded, and for the PsolaShifter triggered, with data for some channel
Playable(sh) ==
    IF sh.kind = "Classic" THEN sh.s.is_loaded /\ sh.s.channel_number > 0
    ELSE PsolaShifter_ready(sh.s) /\ sh.s.hanns > 0

\* C20: on a loaded and triggered strategy (playback_rate * sr_correction
\* >= 0) get_frame(p) is None exactly when the source frame of p lies past
\* the last loaded frame, so None at p means None at every later position.
C20_NoneExactlyPastTheEnd ==
    Playable(shifter) =>
        /\ \A p \in Positions :
              (PitchShifter_get_frame(shifter.kind, shifter.s, p) = None)
                  <=> (SourceFrame(shifter, p) >= LoadedFrames(shifter))
        /\ \A p, q \in Positions :
              (FLe(p, q) /\ PitchShifter_get_frame(shifter.kind, shifter.s, p) = None)
                  => PitchShifter_get_frame(shifter.kind, shifter.s, q) = None

C20_Witness ==
    /\ Playable(shifter)
    /\ shifter.triggered
    /\ shifter.last = "get_frame"
    /\ LET got == Unwrap(shifter.got) IN
       /\ got.ret = None
       /\ FLt(FOne, got.position)
       /\ SourceFrame(shifter, got.position) = LoadedFrames(shifter)
       /\ PitchShifter_get_frame(shifter.kind, shifter.s, FSub(got.position, FOne)) # None
       /\ SourceFrame(shifter, FSub(got.position, FOne)) = LoadedFrames(shifter) - 1

\* sample ch of source frame f of an interleaved buffer of C channels
SampleAt(buffer, C, f, ch) == FInt(buffer[f * C + ch + 1])

\* the value the resampler is specified to return for channel ch at source
\* position q: interpolated towards the next frame, or the last frame as is
Resampled(buffer, C, q, ch) ==
    LET f == AsUsize(q)
        frames == Len(buffer) \div C
    IN IF f + 1 < frames
       THEN FAdd(SampleAt(buffer, C, f, ch),
                 FMul(FSub(q, FInt(f)),
                      FSub(SampleAt(buffer, C, f + 1, ch), SampleAt(buffer, C, f, ch))))
       ELSE SampleAt(buffer, C, f, ch)

\* C21: ClassicShifter.get_frame(p), with q = playback_rate * sr_correction * p
\* and f = floor(q), returns for each channel the linear interpolation between
\* frame f and frame f + 1 at frac(q); for integer q exactly the sample of
\* frame q; and the last frame uninterpolated.
C21_ClassicInterpolates ==
    (shifter.kind = "Classic" /\ Playable(shifter)) =>
        \A p \in Positions :
            LET self == shifter.s
                buffer == Unwrap(self.sample_buffer)
                C == self.channel_number
                q == FMul(FMul(self.playback_rate, self.sr_correction), p)
                got == ClassicShifter_get_frame(self, p)
            IN IsSome(got) =>
                 /\ Len(Unwrap(got)) = C
                 /\ \A ch \in 0..(C - 1) :
                       /\ Unwrap(got)[ch + 1] = Resampled(buffer, C, q, ch)
                       /\ q[2] = 1 => Unwrap(got)[ch + 1] = SampleAt(buffer, C, q[1], ch)

\* the scenario: [0,0,1,1,2,2,3,3], two channels, both rates 1, get_frame(1.5)
C21_Witness ==
    /\ shifter.kind = "Classic"
    /\ shifter.last = "get_frame"
    /\ shifter.s.sample_buffer = Some(<<0, 0, 1, 1, 2, 2, 3, 3>>)
    /\ shifter.s.playback_rate = FOne
    /\ shifter.s.sr_correction = FOne
    /\ Unwrap(shifter.got) = [position |-> Frac(3, 2), ret |-> Some(<<Frac(3, 2), Frac(3, 2)>>)]

\* C22: when pitch detection fails in PsolaShifter.load_sample the shifter is
\* not ready, whatever it was before the call, and it stays not ready, with
\* get_frame returning None at every position, through any trigger() calls
\* until a later load succeeds.
C22_FailedLoadLeavesNotReady ==
    (shifter.kind = "Psola" /\ shifter.failed # "no") =>
        /\ ~PsolaShifter_ready(shifter.s)
        /\ \A p \in Positions : PsolaShifter_get_frame(shifter.s, p) = None
        /\ shifter.last = "get_frame" => Unwrap(shifter.got).ret = None

\* a trigger after a load that failed on a shifter that was ready
C22_Witness ==
    /\ shifter.kind = "Psola"
    /\ shifter.failed = "ready"
    /\ shifter.triggered
    /\ shifter.last = "trigger"

\* f32::round of a non-negative value: the nearest integer, halves upwards
Round(a) == AsUsize(FAdd(a, Frac(1, 2)))

\* the frame of the synthesized streams at one index, None outside any stream
StreamFrame(channels, index) ==
    IF \A c \in DOMAIN channels : index < Len(channels[c])
    THEN Some(FrameOutput_from([c \in DOMAIN channels |-> channels[c][index + 1]]))
    ELSE None

\* C23: for a ready PsolaShifter, get_frame(p) returns for every channel the
\* element of the synthesized stream at index round(p * sr_correction), and
\* None when that index is outside the stream of any channel.
C23_IndexIsRounded ==
    (shifter.kind = "Psola" /\ PsolaShifter_ready(shifter.s)) =>
        \A p \in Positions :
            PsolaShifter_get_frame(shifter.s, p)
                = StreamFrame(Unwrap(shifter.s.iter_samples),
                              Round(FMul(p, shifter.s.sr_correction)))

\* get_frame(0.5) at sr_correction 1 returned element 0 of the stream, while
\* element round(0.5) = 1 exists and differs
C23_TruncatedIndex ==
    /\ shifter.kind = "Psola"
    /\ PsolaShifter_ready(shifter.s)
    /\ shifter.s.sr_correction = FOne
    /\ shifter.last = "get_frame"
    /\ Unwrap(shifter.got).position = Frac(1, 2)
    /\ Unwrap(shifter.got).ret = StreamFrame(Unwrap(shifter.s.iter_samples), 0)
    /\ StreamFrame(Unwrap(shifter.s.iter_samples), 1) # None
    /\ Unwrap(shifter.got).ret # StreamFrame(Unwrap(shifter.s.iter_samples), 1)

\* what the code does: the index is the product truncated towards zero
PsolaIndexIsTruncated ==
    (shifter.kind = "Psola" /\ PsolaShifter_ready(shifter.s)) =>
        \A p \in Positions :
            PsolaShifter_get_frame(shifter.s, p)
                = StreamFrame(Unwrap(shifter.s.iter_samples),
                              AsUsize(FMul(p, shifter.s.sr_correction)))

(***************************************************************************)
(* utils::get_blend_value as a pure function (src/utils.rs): one call with *)
(* arguments drawn from the quarters of a second around the window.        *)
(***************************************************************************)
MaxBlendTime == 2
MaxBlendWidth == 1
BlendDen == 4

\* current_time = process_count / host_sample_rate, never negative
BlendTimes == {Frac(k, BlendDen) : k \in 0..(MaxBlendTime * BlendDen)}
\* blend_time, the center of the window
BlendCenters == {Frac(k, BlendDen) : k \in 0..(MaxBlendWidth * BlendDen)}
\* blend_transition, the width of the window; one negative width
BlendWidths == {Frac(k, BlendDen) : k \in (0 - 1)..(MaxBlendWidth * BlendDen)}

InitBlend ==
    /\ adsr = MultiChannelAdsr_new(1)
    /\ params = [attack |-> 0, decay |-> 0, sustain |-> 0, release |-> 0]
    /\ ret = 0
    /\ first_ret = <<>>
    /\ last_op = "new"
    /\ pre_stage = "Idle"
    /\ run_start = "other"
    /\ run = 0
    /\ player = SamplePlayer_new
    /\ prm \in {p \in MixPrmSet : p.attack = 0}
    /\ process_count = 0
    /\ receiver = <<>>
    /\ pc = [at |-> "new", F |-> 0, i |-> 0, c |-> 0]
    /\ out = <<>>
    /\ obs = ObsNew
    /\ pool = <<>>
    /\ shifter = <<>>
    /\ gui = <<>>
    /\ \E group \in BlendGroup, current_time \in BlendTimes,
          blend_time \in BlendCenters, blend_transition \in BlendWidths :
          blend = [group |-> group, current_time |-> current_time,
                   blend_time |-> blend_time, blend_transition |-> blend_transition,
                   value |-> None]

\* let blend_gain = utils::get_blend_value(group, current_time, blend_time, blend_transition)
GetBlendValue ==
    /\ blend.value = None
    /\ blend' = [blend EXCEPT
                    !.value = Some(get_blend_value(blend.group, blend.current_time,
                                                   blend.blend_time, blend.blend_transition))]
    /\ UNCHANGED <<avars, vvars, pool, shifter, gui>>

NextBlend == GetBlendValue

SpecBlend == InitBlend /\ [][NextBlend]_vars

\* the edges of the window, as the function computes them
BlendStart(b) == FSub(b.blend_time, FDiv(b.blend_transition, FInt(2)))
BlendEnd(b) == FAdd(b.blend_time, FDiv(b.blend_transition, FInt(2)))

\* the intermediate quotient of a call is non-finite
NonFiniteQuotient(b) ==
    blend_raw(b.group, b.current_time, b.blend_time, b.blend_transition) = None

\* C24: get_blend_value returns a finite value in [0,1] for every role, time,
\* center and width, including width = 0; whenever the intermediate quotient
\* is non-finite the result is exactly 1.0.
C24_BlendGainInUnitRange ==
    IsSome(blend.value) =>
        /\ Unwrap(blend.value)[2] > 0
        /\ FLe(FZero, Unwrap(blend.value))
        /\ FLe(Unwrap(blend.value), FOne)
        /\ NonFiniteQuotient(blend) => Unwrap(blend.value) = FOne

\* a call at the center of a window of width 0, where the quotient is 0 / 0
C24_Witness ==
    /\ blend.group = "End"
    /\ blend.blend_transition = FZero
    /\ blend.current_time = blend.blend_time
    /\ NonFiniteQuotient(blend)
    /\ blend.value = Some(FOne)

\* the call was made with a width that is not negative
CalledWithWidth(b) == IsSome(b.value) /\ FLe(FZero, b.blend_transition)

\* C25: for role Start the gain is exactly 1 for every t <= center - width/2,
\* exactly 0 for every t >= center + width/2, and (center + width/2 - t) / width
\* strictly in between; for role None it is 1 for every t, center and width.
C25_StartRampAsStated ==
    /\ (CalledWithWidth(blend) /\ blend.group = "Start") =>
          /\ FLe(blend.current_time, BlendStart(blend)) => Unwrap(blend.value) = FOne
          /\ FLe(BlendEnd(blend), blend.current_time) => Unwrap(blend.value) = FZero
          /\ (FLt(BlendStart(blend), blend.current_time) /\ FLt(blend.current_time, BlendEnd(blend))) =>
                Unwrap(blend.value)
                    = FDiv(FSub(BlendEnd(blend), blend.current_time), blend.blend_transition)
    /\ (IsSome(blend.value) /\ blend.group = "None") => Unwrap(blend.value) = FOne

\* C25 as the function computes it: the gain is 0 at t = center + width/2 only
\* for a positive width; at the center of a window of width 0 it is 1.
C25_StartRamp ==
    /\ (CalledWithWidth(blend) /\ blend.group = "Start") =>
          /\ FLe(blend.current_time, BlendStart(blend)) => Unwrap(blend.value) = FOne
          /\ (/\ FLe(BlendEnd(blend), blend.current_time)
              /\ (FLt(FZero, blend.blend_transition) \/ FLt(BlendEnd(blend), blend.current_time))) =>
                Unwrap(blend.value) = FZero
          /\ (FLt(BlendStart(blend), blend.current_time) /\ FLt(blend.current_time, BlendEnd(blend))) =>
                Unwrap(blend.value)
                    = FDiv(FSub(BlendEnd(blend), blend.current_time), blend.blend_transition)
    /\ (IsSome(blend.value) /\ blend.group = "None") => Unwrap(blend.value) = FOne

\* a Start call strictly inside a window of positive width, a quarter of the
\* way down the ramp
C25_Witness ==
    /\ blend.group = "Start"
    /\ blend.blend_transition = FOne
    /\ FLt(BlendStart(blend), blend.current_time)
    /\ FLt(blend.current_time, BlendEnd(blend))
    /\ blend.value = Some(Frac(3, 4))

\* the gain of the other role of the pair for the arguments of the call
MirrorGain(b) ==
    get_blend_value(IF b.group = "Start" THEN "End" ELSE "Start",
                    b.current_time, b.blend_time, b.blend_transition)

\* C26: the End role is the mirror image of the Start role: for every t, center
\* and width >= 0 the End gain is 1 - the Start gain, so the gains of a Start
\* voice and an End voice sharing the blend parameters always sum to 1.
C26_EndMirrorsStartAlways ==
    (CalledWithWidth(blend) /\ blend.group # "None") =>
        FAdd(Unwrap(blend.value), MirrorGain(blend)) = FOne

\* C26 as the function computes it: the gains sum to 1 except at the center of
\* a window of width 0, where both are 1.
C26_EndMirrorsStart ==
    (CalledWithWidth(blend) /\ blend.group # "None") =>
        IF blend.blend_transition = FZero /\ blend.current_time = blend.blend_time
        THEN Unwrap(blend.value) = FOne /\ MirrorGain(blend) = FOne
        ELSE FAdd(Unwrap(blend.value), MirrorGain(blend)) = FOne

\* an End call a quarter of the way up the ramp, the Start gain being 3/4
C26_Witness ==
    /\ blend.group = "End"
    /\ FLt(FZero, blend.blend_transition)
    /\ blend.value = Some(Frac(1, 4))
    /\ MirrorGain(blend) = Frac(3, 4)

\* the stage changes an advancing call can make
AdvancingEdges ==
    {<<"Attack", "Decay">>, <<"Attack", "Sustain">>, <<"Decay", "Sustain">>,
     <<"Release", "Idle">>}

\* C27: over any interleaving of note_on, note_off and advancing or
\* non-advancing next_value calls with arbitrary parameters, the stage changes
\* only along: any stage -> Attack (note_on only), any non-Idle stage -> Release
\* (note_off only), Attack -> Decay, Attack -> Sustain (only when decay <= 0),
\* Decay -> Sustain, Release -> Idle (advancing call only); an advancing call
\* never leaves Idle or Sustain; stage_progress is 0 right after every change.
C27_StageEdges ==
    /\ pre_stage # adsr.stage =>
          /\ adsr.stage_progress = 0
          /\ \/ adsr.stage = "Attack" /\ last_op = "note_on"
             \/ adsr.stage = "Release" /\ last_op = "note_off" /\ pre_stage # "Idle"
             \/ /\ last_op = "next_first"
                /\ <<pre_stage, adsr.stage>> \in AdvancingEdges
                /\ <<pre_stage, adsr.stage>> = <<"Attack", "Sustain">> => params.decay <= 0
    /\ (last_op = "next_first" /\ pre_stage \in {"Idle", "Sustain"}) => adsr.stage = pre_stage

\* an advancing call that went from Attack straight to Sustain with decay 0
C27_Witness ==
    /\ last_op = "next_first"
    /\ pre_stage = "Attack"
    /\ adsr.stage = "Sustain"
    /\ params.decay = 0
    /\ adsr.stage_progress = 0

\* the step began process and handled a NoteOn among its events
StartedANote ==
    /\ BeginStep
    /\ \E events \in EventSeqs :
          /\ \E k \in 1..Len(events) : events[k].type = "NoteOn"
          /\ Handled(events)

\* C28: after any sequence of start_playing, stop_playing, loads, clear_sample,
\* cleanup_wrapper, reset and process calls, a voice whose envelope is not Idle
\* has a buffer loaded (buffer = None implies envelope Idle), so a cleared
\* voice stays silent until a new load and a new start_playing have happened:
\* the envelope leaves Idle only in a step that handles a NoteOn for a voice
\* with a buffer.
C28_EnvelopeNeedsBuffer ==
    [][/\ player.buffer = None => player.adsr.stage = "Idle"
       /\ player'.buffer = None =>
             /\ player'.adsr.stage = "Idle"
             /\ is_silent(player', prm')
       /\ (player.adsr.stage = "Idle" /\ player'.adsr.stage # "Idle") =>
             /\ StartedANote
             /\ IsSome(player'.buffer)]_vars

\* a voice cleared after a note had been started: the note is still recorded,
\* the buffer is gone and the envelope is Idle
C28_Witness ==
    /\ obs.ev.kind = "begin"
    /\ pc.at = "idle"
    /\ player.buffer = None
    /\ IsSome(player.midi_note)
    /\ player.adsr.stage = "Idle"

\* the audio thread is inside update_buffers, between the write of the
\* internal buffer and the write of the shared snapshot
UpdatingBuffers == gui.audio.at \in {"buffer_parked", "buffer_write"}

\* the editor holds the read guard of the shared snapshot
EditorReads == gui.ui.at \in {"frame", "path_parked", "path_read", "waveform"}

\* C29: whenever no load, clear or cleanup is in progress on a voice, the
\* snapshot shared with the GUI is Some exactly when the internal buffer is
\* Some, and then holds the same samples; a GUI read only ever observes a
\* buffer that was, or still is, the installed buffer of the voice.
C29_SnapshotMatchesBuffer ==
    /\ ~UpdatingBuffers =>
          /\ IsSome(gui.shared_buffer) <=> IsSome(gui.audio.buffer)
          /\ gui.shared_buffer = gui.audio.buffer
    /\ EditorReads =>
          /\ gui.ui.seen = gui.shared_buffer
          /\ gui.ui.seen \in gui.installed

\* the editor reads the former buffer while the audio thread, which has
\* already installed another one, waits to publish it
C29_Witness ==
    /\ gui.ui.at = "waveform"
    /\ gui.audio.at = "buffer_parked"
    /\ IsSome(gui.ui.seen)
    /\ IsSome(gui.audio.buffer)
    /\ gui.ui.seen # gui.audio.buffer
    /\ gui.ui.seen \in gui.installed

\* the audio thread is acquiring, or waiting for, one of the two locks
AudioAcquiresBuffer == gui.audio.at \in {"update_buffers", "buffer_parked"}
AudioAcquiresPath == gui.audio.at \in {"set_sample_path", "path_parked"}

\* the audio thread holds, or waits for, a lock
AudioAtALock ==
    gui.audio.at \in {"buffer_parked", "buffer_write", "path_parked", "path_write"}

\* C30: the audio thread and the GUI thread never deadlock over the shared
\* audio-buffer lock and the sample-path lock: the audio thread never holds
\* one of them while it acquires the other, and in every interleaving of a
\* load or clear with a redraw both threads eventually release all locks.
C30_NoDeadlockOverTheLocks ==
    /\ [](AudioAcquiresBuffer => ~gui.path_lock.writer)
    /\ [](AudioAcquiresPath => ~gui.buffer_lock.writer)
    /\ (AudioAtALock ~> ~AudioAtALock)
    /\ (gui.ui.at # "idle" ~> gui.ui.at = "idle")

\* the editor holds the read guard of the buffer and waits for the path,
\* whose write guard the audio thread holds
C30_Witness ==
    /\ gui.ui.at = "path_parked"
    /\ gui.buffer_lock.readers = 1
    /\ gui.audio.at = "path_write"
    /\ gui.path_lock.writer

============================================================================
